---- MODULE Spec2Model ----
(***************************************************************************)
(* Model of oidc-auth-manager: provider discovery (preferred-provider.js), *)
(* the authentication callback (handlers/auth-callback-request.js and its  *)
(* other revision in unnamed/part_002) and the consent decision            *)
(* (handlers/login-consent-request.js).                                    *)
(*                                                                         *)
(* Every promise chain is modelled one step per action; the answers of the *)
(* network and of the external collaborators are chosen with \E at the     *)
(* step that asks for them.                                                *)
(***************************************************************************)
EXTENDS Integers, Sequences, FiniteSets, TLC

\* ------------------------------------------------------------------------
\* Bounds
\* ------------------------------------------------------------------------
\* longest list of oidcIssuer statements a profile carries
MaxCandidates == 2
\* number of requests of one kind handled on one session
MaxRequests == 2
MaxHostCalls == 1
\* Operations begun on one user store
MaxUserOps == 3
\* Lookups of one findUser (alias records that point at each other would be
\* followed without end)
MaxLookups == 3

\* ------------------------------------------------------------------------
\* State
\* ------------------------------------------------------------------------
\* one provider resolution (preferred-provider.js)
VARIABLES
  dpc,      \* position in the promise chain
  dEntry,   \* "preferred" (preferredProviderFor) or "discover" (discoverProviderFor)
  dUri,     \* the uri / webId argument
  dIssuer,  \* the issuer argument of discoverProviderFor, or Undefined
  dFound,   \* providerFromHeaders, then the value handed to the last .then
  dIsList,  \* Array.isArray(providerUri) in the last .then
  dCalls,   \* the network requests issued so far with their answers, in order
  dResult   \* Undefined while pending, then Ok(origin) or Fail(error)

dvars == <<dpc, dEntry, dUri, dIssuer, dFound, dIsList, dCalls, dResult>>

\* the session and one callback request (AuthCallbackRequest)
VARIABLES
  session,    \* req.session, which outlives the request
  cbRev,      \* the revision of the handler that serves the request
  cbPc,       \* position in the promise chain of AuthCallbackRequest.get
  cbIssuer,   \* request.issuer
  cbReturnTo, \* request.returnToUrl (revision A: the returnToUrl that
              \* resumeUserWorkflow read from the session)
  cbAuth,     \* what client.validateResponse resolved with
  cbSteps,    \* the methods invoked so far, in order
  cbResp,     \* the actions taken on the response object, in order
  cbOutcome,  \* "pending", "resolved", "next" (error handed to next) or
              \* "threw" (get threw synchronously)
  cbErr,      \* the error of the request, NoErr if none
  cbSession0, \* the session as it was when the request arrived
  cbCount,    \* requests served on this session
  cbParams    \* req.params of the request: Absent, "noIssuerId" or the issuer_id

cbvars == <<session, cbRev, cbPc, cbIssuer, cbReturnTo, cbAuth, cbSteps,
            cbResp, cbOutcome, cbErr, cbSession0, cbCount, cbParams>>

\* the consent decision of one authorization request (LoginConsentRequest)
VARIABLES
  consentedOrigins, \* req.session.consentedOrigins
  lcRev,      \* the revision of LoginConsentRequest that serves the request
  lcPc,       \* position in LoginConsentRequest.handle
  lcReq,      \* what the request came with: subject, client_id, redirect_uri,
              \* scope, consent flag, host.localClientId, skipConsent
  lcAuthReq,  \* the fields of opAuthRequest the flow writes: subject, consent,
              \* scope, headersSent
  lcCalls,    \* the methods of the consent request invoked so far, in order
  lcResp,     \* the actions taken on the response object, in order
  lcOutcome,  \* "pending", "resolved" or "rejected" (AuthResponseSent thrown)
  lcCaller,   \* who called: "handle" or "obtainConsent" for a direct call, else the
              \* revision of HostAPI.obtainConsent
  lcCount     \* authorization requests served on this session

lcvars == <<consentedOrigins, lcRev, lcPc, lcReq, lcAuthReq, lcCalls, lcResp,
            lcOutcome, lcCount, lcCaller>>

\* one call of HostAPI.authenticate or HostAPI.logout by the identity provider
VARIABLES
  haRev,      \* the revision of host-api that serves the call
  haPc,       \* "idle", "logoutRequest", "settle" or "done"
  haOp,       \* "authenticate" or "logout"
  haQuery,    \* authRequest.req.query, serialised
  haSubject,  \* authRequest.subject
  haResp,     \* the actions taken on authRequest.res, in order
  haOutcome,  \* how the call ended for the caller
  haSession0, \* the session when the call came
  haCount     \* calls served

havars == <<haRev, haPc, haOp, haQuery, haSubject, haResp, haOutcome,
            haSession0, haCount>>

\* one POST of the select-provider form (SelectProviderRequest)
VARIABLES
  spPc,       \* position in the promise chain of handlePost
  spInput,    \* req.body.webid as submitted
  spWebId,    \* request.webId
  spManager,  \* request.oidcManager: "none", "noClients" or "ready"
  spSession,  \* request.session
  spProvider, \* the provider uri fetchProviderUri found
  spAuthUrl,  \* what authUrlForIssuer resolved with
  spCalls,    \* the calls to the network and to the client store, in order
  spResp,     \* the actions taken on the response object, in order
  spErr       \* the error handed to request.error, or NoSpErr

spvars == <<spPc, spInput, spWebId, spManager, spSession, spProvider, spAuthUrl,
            spCalls, spResp, spErr>>

\* the user store (UserStore) and one operation on it
VARIABLES
  usRev,      \* the revision of the class the store is an instance of
  usPc,       \* position in the promise chain of the operation
  usOp,       \* "createUser", "updatePassword", "findUser" or "deleteUser"
  usUser,     \* the user argument (hashedPassword is set on it on the way)
  usPassword, \* the password argument
  usLookup,   \* findUser: the id that is looked up next
  usResult,   \* findUser: what the promise resolved with
  users,      \* the backend's 'users' collection, by key
  usersByEmail, \* the backend's 'users-by-email' collection, by key
  usStore0,   \* the two collections as they were when the operation began
  usCalls,    \* the calls to bcrypt and to the backend, in order
  usOutcome,  \* "pending", "resolved", "rejected" or "threw"
  usErr,      \* the error of the operation
  usCount     \* operations begun on this store

usvars == <<usRev, usPc, usOp, usUser, usPassword, usLookup, usResult, users,
            usersByEmail, usStore0, usCalls, usOutcome, usErr, usCount>>

vars == <<dvars, cbvars, lcvars, havars, spvars, usvars>>

\* ------------------------------------------------------------------------
\* Values
\* ------------------------------------------------------------------------
\* JavaScript undefined / null where a URI, a list, an error or a result is
\* expected (both falsy; the code never tells them apart)
Undefined == [k |-> "undefined", host |-> "", path |-> ""]
\* JavaScript undefined where a plain string is expected
Absent == "absent"

\* Hosts of the URIs in the model
IdentityHosts == {"alice.example", "op.example"}
IssuerHosts == {"op.example", "op2.example"}
UriPaths == {"", "/p?q"}

\* A parseable http(s) URI: host and path+query.  path = "" is a bare origin.
HttpUri(h, p) == [k |-> "url", host |-> h, path |-> p]
\* A URI WHATWG URL parses but whose origin is opaque (urn:..., mailto:...)
OpaqueUri == [k |-> "opaque", host |-> "", path |-> ""]
\* A string `new URL()` rejects (e.g. <http://a:99999/>)
BadUri == [k |-> "bad", host |-> "", path |-> ""]
\* The empty string
EmptyStr == [k |-> "empty", host |-> "", path |-> ""]
\* The string "null", which is what URL.origin yields for an opaque origin
NullStr == [k |-> "nullstr", host |-> "", path |-> ""]
\* Marks an exception of `new URL()`
TypeErrorThrown == [k |-> "TypeError", host |-> "", path |-> ""]

IdentityUris == {HttpUri(h, p) : h \in IdentityHosts, p \in {"/p?q"}}
IssuerUris == {HttpUri(h, p) : h \in IssuerHosts, p \in UriPaths}
IssuerOrigins == {HttpUri(h, "") : h \in IssuerHosts}

\* What a Link header's issuer relation can carry
LinkValues == IssuerUris \cup {OpaqueUri, BadUri, EmptyStr}
\* What an oidcIssuer statement's named-node object can carry
CandidateValues == IssuerUris \cup {OpaqueUri, BadUri}

\* JavaScript truthiness of a string-or-undefined value
Truthy(v) == v /= Undefined /\ v /= EmptyStr

\* (new URL(u)).origin
Origin(u) ==
  CASE u.k = "url" -> HttpUri(u.host, "")
    [] u.k = "opaque" -> NullStr
    [] OTHER -> TypeErrorThrown

\* validUrl.isUri(v): needs a scheme, so an origin qualifies and "null" does not
IsUri(v) == v.k \in {"url", "opaque"}

\* ------------------------------------------------------------------------
\* Errors of provider discovery
\* ------------------------------------------------------------------------
NoStatus == 0
DiscoveryErr(type, status, webId, value) ==
  [type |-> type, statusCode |-> status, webId |-> webId, value |-> value]

\* validateProviderUri(provider, webId): the error it throws, or Undefined
\* when it returns normally
validateProviderUri(provider, webId) ==
  IF ~Truthy(provider)
  THEN DiscoveryErr("NotAdvertised", 400, webId, Undefined)
  ELSE IF ~IsUri(provider)
  THEN DiscoveryErr("InvalidUri", 400, webId, provider)
  ELSE Undefined

Ok(v) == [ok |-> TRUE, value |-> v, err |-> Undefined]
Fail(e) == [ok |-> FALSE, value |-> Undefined, err |-> e]
\* the TypeError of `new URL()` on a string that is no URL
TypeErr == DiscoveryErr("TypeError", NoStatus, Undefined, Undefined)
\* the rejection of node-fetch when the request fails at the network level
FetchErr == DiscoveryErr("FetchError", NoStatus, Undefined, Undefined)

\* The `for` loop of discoverProviderFor over the profile's list, from index i
\* with the lastErr of the previous iteration
RECURSIVE SelectFromList(_, _, _, _, _)
SelectFromList(list, i, lastErr, webId, issuer) ==
  IF i > Len(list)
  THEN IF lastErr /= Undefined
       THEN Fail(lastErr)
       ELSE Fail(validateProviderUri(Undefined, webId))
  ELSE LET providerUri == Origin(list[i])
           err == validateProviderUri(providerUri, webId)
       IN IF providerUri = TypeErrorThrown
          THEN Fail(TypeErr)
          ELSE IF err = Undefined /\ (issuer = Undefined \/ providerUri = issuer)
          THEN Ok(providerUri)
          ELSE SelectFromList(list, i + 1, err, webId, issuer)

\* The last `.then` of discoverProviderFor: found is either the value of the
\* issuer Link relation or the list read from the profile
SelectMutFirstCandidate(found, isList, webId, issuer) ==
  IF isList
  THEN SelectFromList(found, 1, Undefined, webId, Undefined)
  ELSE Ok(Origin(found))

SelectMutKeepPath(found, isList, webId, issuer) ==
  IF isList
  THEN SelectFromList(found, 1, Undefined, webId, issuer)
  ELSE Ok(found)

SelectProvider(found, isList, webId, issuer) ==
  IF isList
  THEN SelectFromList(found, 1, Undefined, webId, issuer)
  ELSE LET providerUri == IF Truthy(found) THEN Origin(found) ELSE found
           err == validateProviderUri(providerUri, webId)
       IN IF providerUri = TypeErrorThrown
          THEN Fail(TypeErr)
          ELSE IF err /= Undefined THEN Fail(err) ELSE Ok(providerUri)

\* ------------------------------------------------------------------------
\* Provider resolution
\* ------------------------------------------------------------------------
Lists(S, n) == UNION {[1..m -> S] : m \in 0..n}

\* One network request and what came back: answer is "ok" (response.ok),
\* "notok" (a response with a non-2xx status) or "reject" (fetch rejected);
\* link is the issuer Link relation of an OPTIONS response, list the named
\* nodes of the profile's oidcIssuer statements
NetCall(req, answer, link, list) ==
  [req |-> req, answer |-> answer, link |-> link, list |-> list]

DInit ==
  /\ dpc = "idle"
  /\ dEntry = Absent
  /\ dUri = Undefined
  /\ dIssuer = Undefined
  /\ dFound = Undefined
  /\ dIsList = FALSE
  /\ dCalls = <<>>
  /\ dResult = Undefined

\* preferredProviderFor(uri) is called
CallPreferredProviderFor ==
  /\ dpc = "idle"
  /\ \E u \in IdentityUris \cup IssuerUris : dUri' = u
  /\ dEntry' = "preferred"
  /\ dIssuer' = Undefined
  /\ dpc' = "providerExists"
  /\ UNCHANGED <<dFound, dIsList, dCalls, dResult>>
  /\ UNCHANGED <<cbvars, lcvars, havars, spvars, usvars>>

\* discoverProviderFor(webId, issuer) is called directly
CallDiscoverProviderFor ==
  /\ dpc = "idle"
  /\ \E u \in IdentityUris : dUri' = u
  /\ \E i \in IssuerOrigins \cup {Undefined} : dIssuer' = i
  /\ dEntry' = "discover"
  /\ dpc' = "headers"
  /\ UNCHANGED <<dFound, dIsList, dCalls, dResult>>
  /\ UNCHANGED <<cbvars, lcvars, havars, spvars, usvars>>

\* providerExists(uri) and the .then of preferredProviderFor
ProviderExistsMutInverted(headOk) == ~headOk

ProviderExistsOk(headOk) == headOk

providerExists ==
  /\ dpc = "providerExists"
  /\ \E answer \in {"ok", "notok", "reject"} :
     /\ dCalls' = Append(dCalls, NetCall("HEAD", answer, Undefined, <<>>))
     /\ IF answer = "reject"
       THEN /\ dResult' = Fail(FetchErr)
            /\ dpc' = "done"
       ELSE IF ProviderExistsOk(answer = "ok")
       THEN /\ dResult' = Ok(Origin(dUri))
            /\ dpc' = "done"
       ELSE /\ dResult' = dResult
            /\ dpc' = "headers"
  /\ UNCHANGED <<dEntry, dUri, dIssuer, dFound, dIsList>>
  /\ UNCHANGED <<cbvars, lcvars, havars, spvars, usvars>>

\* discoverFromHeaders(webId) and the `providerFromHeaders || ...` that follows
NeedsProfileMutAlways(fromHeaders) == TRUE

NeedsProfile(fromHeaders) == ~Truthy(fromHeaders)

discoverFromHeaders ==
  /\ dpc = "headers"
  /\ \E answer \in {"ok", "notok", "reject"}, link \in LinkValues \cup {Undefined} :
     /\ answer /= "ok" => link = Undefined
     /\ dCalls' = Append(dCalls, NetCall("OPTIONS", answer, link, <<>>))
     /\ IF answer = "reject"
        THEN /\ dResult' = Fail(FetchErr)
             /\ dpc' = "done"
             /\ UNCHANGED <<dFound, dIsList>>
        ELSE LET fromHeaders == IF answer = "ok" THEN link ELSE Undefined
             IN /\ dFound' = fromHeaders
                /\ dIsList' = FALSE
                /\ dpc' = IF NeedsProfile(fromHeaders) THEN "profile" ELSE "select"
                /\ dResult' = dResult
  /\ UNCHANGED <<dEntry, dUri, dIssuer>>
  /\ UNCHANGED <<cbvars, lcvars, havars, spvars, usvars>>

\* discoverAllFromProfile(webId)
ProfileMutIgnoreStatus(responseOk) == TRUE

ProfileReachable(responseOk) == responseOk

discoverAllFromProfile ==
  /\ dpc = "profile"
  /\ \E answer \in {"ok", "notok", "reject"}, list \in Lists(CandidateValues, MaxCandidates) :
     /\ answer /= "ok" => list = <<>>
     /\ dCalls' = Append(dCalls, NetCall("PROFILE", answer, Undefined, list))
     /\ IF answer = "reject" \/ ~ProfileReachable(answer = "ok")
        THEN /\ dResult' = Fail(DiscoveryErr("Unreachable", 400, dUri, Undefined))
             /\ dpc' = "done"
             /\ UNCHANGED <<dFound, dIsList>>
        ELSE /\ dFound' = list
             /\ dIsList' = TRUE
             /\ dpc' = "select"
             /\ dResult' = dResult
  /\ UNCHANGED <<dEntry, dUri, dIssuer>>
  /\ UNCHANGED <<cbvars, lcvars, havars, spvars, usvars>>

\* the last .then of discoverProviderFor
discoverProviderFor ==
  /\ dpc = "select"
  /\ dResult' = SelectProvider(dFound, dIsList, dUri, dIssuer)
  /\ dpc' = "done"
  /\ UNCHANGED <<dEntry, dUri, dIssuer, dFound, dIsList, dCalls>>
  /\ UNCHANGED <<cbvars, lcvars, havars, spvars, usvars>>

DNext ==
  \/ CallPreferredProviderFor
  \/ CallDiscoverProviderFor
  \/ providerExists
  \/ discoverFromHeaders
  \/ discoverAllFromProfile
  \/ discoverProviderFor

\* ------------------------------------------------------------------------
\* The authentication callback: AuthCallbackRequest
\* ------------------------------------------------------------------------
\* The sources hold three revisions of the handler
RevA == "auth-callback-request.js:5"
RevB == "part_002:5"
RevC == "auth-callback-request.js:152"
CallbackRevisions == {RevA, RevB, RevC}

\* values the session can hold as returnToUrl
ReturnToUrls == {"/r", "%2Fr%23h", "%"}
\* values of the :issuer_id path parameter
IssuerIds == {"https%3A%2F%2Fop.example", "%"}
WebIds == {"https://alice.example/#me", "https://bob.example/#me"}
Tokens == {"tokenA", "tokenB"}
URIErrorThrown == "URIError: URI malformed"

\* decodeURIComponent(v)
decodeURIComponent(v) ==
  CASE v = Absent -> "undefined"
    [] v = "%2Fr%23h" -> "/r#h"
    [] v = "https%3A%2F%2Fop.example" -> "https://op.example"
    [] v = "%" -> URIErrorThrown
    [] OTHER -> v

\* JavaScript truthiness of a string-or-undefined value of the callback
Present(v) == v /= Absent /\ v /= ""

CbErr(type, status) == [type |-> type, statusCode |-> status]
NoErr == CbErr("none", NoStatus)

\* AuthCallbackRequest.extractIssuer(req); params is Absent when req.params is
\* missing, "noIssuerId" when it has no issuer_id, else the issuer_id
extractIssuer(params) ==
  IF params = Absent
  THEN Absent
  ELSE decodeURIComponent(IF params = "noIssuerId" THEN Absent ELSE params)

\* AuthCallbackRequest.extractReturnToUrl(session), revision C
extractReturnToUrl(returnToUrl) ==
  IF Present(returnToUrl) THEN decodeURIComponent(returnToUrl) ELSE Absent

\* this.returnToUrl, revision B: options.returnToUrl || '/' with
\* returnToUrl: req.session.returnToUrl
RequestReturnToUrlB(returnToUrl) ==
  IF Present(returnToUrl) THEN returnToUrl ELSE "/"

\* a constructor that takes the session's value as it is
ReturnToMutNoDecode(returnToUrl) ==
  IF Present(returnToUrl) THEN returnToUrl ELSE "/"

\* this.returnToUrl, revision C: options.returnToUrl || '/' with
\* returnToUrl = extractReturnToUrl(req.session)
RequestReturnToUrlC(returnToUrl) ==
  LET extracted == extractReturnToUrl(returnToUrl)
  IN IF Present(extracted) THEN extracted ELSE "/"

\* this.returnToUrl as fromParams and the constructor compute it (revision A
\* has no such field)
RequestReturnToUrl(rev, returnToUrl) ==
  CASE rev = RevA -> Absent
    [] rev = RevB -> RequestReturnToUrlB(returnToUrl)
    [] OTHER -> RequestReturnToUrlC(returnToUrl)

FreshSession ==
  [returnToUrl |-> Absent, accessToken |-> Absent, refreshToken |-> Absent,
   userId |-> Absent, identified |-> FALSE, decoded |-> Absent]

Redirect(status, target) == [op |-> "redirect", status |-> status, target |-> target]
Send(body) == [op |-> "send", status |-> 200, target |-> body]

NoAuth == [accessToken |-> Absent, refreshToken |-> Absent, claims |-> Absent]

CbInit ==
  /\ session = FreshSession
  /\ cbRev = Absent
  /\ cbPc = "idle"
  /\ cbIssuer = Absent
  /\ cbReturnTo = Absent
  /\ cbAuth = NoAuth
  /\ cbSteps = <<>>
  /\ cbResp = <<>>
  /\ cbOutcome = "pending"
  /\ cbErr = NoErr
  /\ cbSession0 = FreshSession
  /\ cbCount = 0
  /\ cbParams = Absent

\* Before the browser is sent to the provider the host stores the url to
\* come back to in the session
SaveReturnToUrl ==
  /\ cbPc = "idle"
  /\ haPc = "idle"
  /\ \E r \in ReturnToUrls : session' = [session EXCEPT !.returnToUrl = r]
  /\ UNCHANGED <<cbRev, cbPc, cbIssuer, cbReturnTo, cbAuth, cbSteps, cbResp,
                 cbOutcome, cbErr, cbSession0, cbCount, cbParams>>
  /\ UNCHANGED <<dvars, lcvars, havars, spvars, usvars>>

\* .catch(next) of revisions A and B: the error goes to the caller's next
CatchNext(e) ==
  /\ cbErr' = e
  /\ cbPc' = "done"
  /\ cbOutcome' = "next"
  /\ cbResp' = cbResp

\* .catch of revision C: the error is logged and answered with a redirect to
\* /login
CatchRedirectToLogin(e) ==
  /\ cbErr' = e
  /\ cbPc' = "done"
  /\ cbOutcome' = "resolved"
  /\ cbResp' = Append(cbResp, Redirect(302, "/login"))

\* a chain in which a rejected step does not end the request
CatchMutContinues(rev, e) ==
  /\ cbErr' = e
  /\ cbPc' = "resumeUserWorkflow"
  /\ cbOutcome' = cbOutcome
  /\ cbResp' = cbResp

\* the promise chain of the request rejects with error e
CbCatch(rev, e) ==
  IF rev = RevC THEN CatchRedirectToLogin(e) ELSE CatchNext(e)

\* AuthCallbackRequest.get up to the start of the promise chain: fromParams
\* and the constructor, which run outside the chain
CallbackGet ==
  /\ cbPc = "idle"
  /\ haPc = "idle"
  /\ cbCount < MaxRequests
  /\ cbCount' = cbCount + 1
  /\ cbSession0' = session
  /\ cbSteps' = <<"fromParams">>
  /\ cbResp' = <<>>
  /\ cbAuth' = NoAuth
  /\ \E rev \in CallbackRevisions, params \in IssuerIds \cup {Absent, "noIssuerId"} :
       LET issuer == extractIssuer(params)
           returnTo == RequestReturnToUrl(rev, session.returnToUrl)
       IN /\ cbRev' = rev
          /\ cbParams' = params
          /\ IF issuer = URIErrorThrown \/ returnTo = URIErrorThrown
             THEN /\ cbPc' = "done"
                  /\ cbOutcome' = "threw"
                  /\ cbErr' = CbErr("URIError", NoStatus)
                  /\ cbIssuer' = Absent
                  /\ cbReturnTo' = Absent
             ELSE /\ cbPc' = "validate"
                  /\ cbOutcome' = "pending"
                  /\ cbErr' = NoErr
                  /\ cbIssuer' = issuer
                  /\ cbReturnTo' = returnTo
  /\ UNCHANGED session
  /\ UNCHANGED <<dvars, lcvars, havars, spvars, usvars>>

\* request.validate(), the same in the three revisions
IssuerGiven(issuer) == Present(issuer)

CallbackValidate ==
  /\ cbPc = "validate"
  /\ cbSteps' = Append(cbSteps, "validate")
  /\ IF IssuerGiven(cbIssuer)
     THEN /\ cbPc' = "loadClient"
          /\ UNCHANGED <<cbErr, cbOutcome, cbResp>>
     ELSE CbCatch(cbRev, CbErr("IssuerMissing", 400))
  /\ UNCHANGED <<session, cbRev, cbIssuer, cbReturnTo, cbAuth, cbSession0, cbCount, cbParams>>
  /\ UNCHANGED <<dvars, lcvars, havars, spvars, usvars>>

\* request.loadClient(): oidcManager.clients.clientForIssuer(issuer) (in
\* revision A the first step of handleCallback)
CallbackLoadClient ==
  /\ cbPc = "loadClient"
  /\ cbSteps' = Append(cbSteps, "loadClient")
  /\ \E loaded \in BOOLEAN :
       IF loaded
       THEN /\ cbPc' = "validateResponse"
            /\ UNCHANGED <<cbErr, cbOutcome, cbResp>>
       ELSE CbCatch(cbRev, CbErr("ClientLoad", NoStatus))
  /\ UNCHANGED <<session, cbRev, cbIssuer, cbReturnTo, cbAuth, cbSession0, cbCount, cbParams>>
  /\ UNCHANGED <<dvars, lcvars, havars, spvars, usvars>>

\* the rejection of request.validateResponse: revision C tags the client's
\* error with statusCode 400, revisions A and B pass it on as it is
ValidateResponseErr(rev) ==
  CbErr("InvalidResponse", IF rev = RevC THEN 400 ELSE NoStatus)

\* request.validateResponse(client): client.validateResponse(requestUri, session)
CallbackValidateResponse ==
  /\ cbPc = "validateResponse"
  /\ cbSteps' = Append(cbSteps, "validateResponse")
  /\ \E valid \in BOOLEAN, at \in Tokens, rt \in Tokens, claims \in WebIds \cup {"no-webid"} :
       IF valid
       THEN /\ cbAuth' = [accessToken |-> at, refreshToken |-> rt, claims |-> claims]
            /\ cbPc' = "initSessionUserAuth"
            /\ UNCHANGED <<cbErr, cbOutcome, cbResp>>
       ELSE /\ at = "tokenA" /\ rt = "tokenA" /\ claims = "no-webid"
            /\ cbAuth' = cbAuth
            /\ CbCatch(cbRev, ValidateResponseErr(cbRev))
  /\ UNCHANGED <<session, cbRev, cbIssuer, cbReturnTo, cbSession0, cbCount, cbParams>>
  /\ UNCHANGED <<dvars, lcvars, havars, spvars, usvars>>

\* oidcManager.webIdFromClaims(claims) (claims.sub in revision A): the web id,
\* Absent when the claims yield none
webIdFromClaims(claims) == IF claims \in WebIds THEN claims ELSE Absent

\* revision A, initSessionUserAuth: the web id is the sub claim as it is
InitSessionUserAuthA ==
  /\ cbRev = RevA
  /\ session' = [session EXCEPT !.accessToken = cbAuth.accessToken,
                                !.refreshToken = cbAuth.refreshToken,
                                !.userId = webIdFromClaims(cbAuth.claims),
                                !.identified = TRUE]
  /\ cbPc' = "resumeUserWorkflow"
  /\ UNCHANGED <<cbErr, cbOutcome, cbResp>>

\* revision B, initSessionUserAuth: the tokens are stored, then
\* webIdFromClaims is called synchronously and may throw
InitSessionUserAuthB ==
  /\ cbRev = RevB
  /\ LET webId == webIdFromClaims(cbAuth.claims)
     IN IF webId /= Absent
        THEN /\ session' = [session EXCEPT !.accessToken = cbAuth.accessToken,
                                           !.refreshToken = cbAuth.refreshToken,
                                           !.userId = webId,
                                           !.identified = TRUE]
             /\ cbPc' = "resumeUserWorkflow"
             /\ UNCHANGED <<cbErr, cbOutcome, cbResp>>
        ELSE /\ session' = [session EXCEPT !.accessToken = cbAuth.accessToken,
                                           !.refreshToken = cbAuth.refreshToken]
             /\ CatchNext(CbErr("NoWebId", NoStatus))

\* revision C, initSessionUserAuth up to the promise of webIdFromClaims:
\* Object.assign(this.session, session)
InitSessionUserAuthC ==
  /\ cbRev = RevC
  /\ session' = [session EXCEPT !.accessToken = cbAuth.accessToken,
                                !.refreshToken = cbAuth.refreshToken,
                                !.decoded = cbAuth.claims]
  /\ cbPc' = "webIdFromClaims"
  /\ UNCHANGED <<cbErr, cbOutcome, cbResp>>

\* request.initSessionUserAuth(authResponse)
CallbackInitSessionUserAuth ==
  /\ cbPc = "initSessionUserAuth"
  /\ cbSteps' = Append(cbSteps, "initSessionUserAuth")
  /\ \/ InitSessionUserAuthA
     \/ InitSessionUserAuthB
     \/ InitSessionUserAuthC
  /\ UNCHANGED <<cbRev, cbIssuer, cbReturnTo, cbAuth, cbSession0, cbCount, cbParams>>
  /\ UNCHANGED <<dvars, lcvars, havars, spvars, usvars>>

\* revision C: what the .then of webIdFromClaims writes into the session
StoreWebId(s, webId) == [s EXCEPT !.userId = webId]

\* revision C: the promise of oidcManager.webIdFromClaims settles
CallbackWebIdFromClaims ==
  /\ cbPc = "webIdFromClaims"
  /\ cbSteps' = Append(cbSteps, "webIdFromClaims")
  /\ LET webId == webIdFromClaims(cbAuth.claims)
     IN IF webId /= Absent
        THEN /\ session' = StoreWebId(session, webId)
             /\ cbPc' = "resumeUserWorkflow"
             /\ UNCHANGED <<cbErr, cbOutcome, cbResp>>
        ELSE /\ session' = session
             /\ CatchRedirectToLogin(CbErr("NoWebId", 401))
  /\ UNCHANGED <<cbRev, cbIssuer, cbReturnTo, cbAuth, cbSession0, cbCount, cbParams>>
  /\ UNCHANGED <<dvars, lcvars, havars, spvars, usvars>>

\* a resumeUserWorkflow that leaves returnToUrl in the session
ClearMutKeeps(s) == s

\* delete session.returnToUrl
ClearReturnToUrl(s) == [s EXCEPT !.returnToUrl = Absent]

\* revision A, resumeUserWorkflow up to the response: let returnToUrl =
\* session.returnToUrl; delete session.returnToUrl, only if the session still
\* holds a returnToUrl
ResumeUserWorkflowA ==
  /\ cbRev = RevA
  /\ IF Present(session.returnToUrl)
     THEN /\ cbReturnTo' = session.returnToUrl
          /\ session' = ClearReturnToUrl(session)
     ELSE /\ cbReturnTo' = cbReturnTo
          /\ session' = session

\* revisions B and C, resumeUserWorkflow up to the response
ResumeUserWorkflow ==
  /\ cbRev /= RevA
  /\ session' = ClearReturnToUrl(session)
  /\ cbReturnTo' = cbReturnTo

\* request.resumeUserWorkflow() up to its call of the response object
CallbackResumeUserWorkflow ==
  /\ cbPc = "resumeUserWorkflow"
  /\ cbSteps' = Append(cbSteps, "resumeUserWorkflow")
  /\ cbPc' = "redirect"
  /\ \/ ResumeUserWorkflowA
     \/ ResumeUserWorkflow
  /\ UNCHANGED <<cbRev, cbIssuer, cbAuth, cbErr, cbOutcome, cbResp, cbSession0,
                 cbCount, cbParams>>
  /\ UNCHANGED <<dvars, lcvars, havars, spvars, usvars>>

\* what resumeUserWorkflow does on the response object: revision A sends a
\* text when it found no returnToUrl
ResumeResponse(rev, returnToUrl) ==
  IF rev = RevA /\ ~Present(returnToUrl)
  THEN Send("Resume User Flow (failed)")
  ELSE Redirect(302, returnToUrl)

\* the last statement of resumeUserWorkflow: this.response.redirect(302, ...)
CallbackRedirect ==
  /\ cbPc = "redirect"
  /\ cbResp' = Append(cbResp, ResumeResponse(cbRev, cbReturnTo))
  /\ cbPc' = "done"
  /\ cbOutcome' = "resolved"
  /\ UNCHANGED <<session, cbRev, cbIssuer, cbReturnTo, cbAuth, cbSteps, cbErr,
                 cbSession0, cbCount, cbParams>>
  /\ UNCHANGED <<dvars, lcvars, havars, spvars, usvars>>

\* the request is over; the session stays for the next one
CallbackFinished ==
  /\ cbPc = "done"
  /\ cbPc' = "idle"
  /\ UNCHANGED <<session, cbRev, cbIssuer, cbReturnTo, cbAuth, cbSteps, cbResp,
                 cbOutcome, cbErr, cbSession0, cbCount, cbParams>>
  /\ UNCHANGED <<dvars, lcvars, havars, spvars, usvars>>

CbNext ==
  \/ SaveReturnToUrl
  \/ CallbackGet
  \/ CallbackValidate
  \/ CallbackLoadClient
  \/ CallbackValidateResponse
  \/ CallbackInitSessionUserAuth
  \/ CallbackWebIdFromClaims
  \/ CallbackResumeUserWorkflow
  \/ CallbackRedirect
  \/ CallbackFinished

\* ------------------------------------------------------------------------
\* The consent decision: LoginConsentRequest
\* ------------------------------------------------------------------------
\* The sources hold four revisions of the class
LcRevA == "login-consent-request.js:7"
LcRevB == "login-consent-request.js:149"
LcRevC == "part_001:6"
LcRevD == "part_001:142"
ConsentRevisions == {LcRevA, LcRevB, LcRevC, LcRevD}

\* req.app.locals.ldp.serverUri
ServerUri == "https://pod.example"
ClientIds == {"app-client", "pod-client"}
RedirectUris == {"https://app.example/cb?x=1", "https://pod.example/api/oidc/rp",
                 "https://other.example/cb"}
Scopes == {"openid", "openid profile"}
\* req.query of the authorization request, serialised; empty when the
\* parameters came in the body
Queries == {"", "client_id=app-client&scope=openid"}

\* url.format of url.parse(path) with its query set to req.query
UrlFormat(path, query) == IF query = "" THEN path ELSE path \o "?" \o query

\* `${parsed.protocol}//${parsed.host}` of url.parse(redirect_uri)
AppOrigin(redirectUri) ==
  CASE redirectUri = "https://app.example/cb?x=1" -> "https://app.example"
    [] redirectUri = "https://pod.example/api/oidc/rp" -> "https://pod.example"
    [] redirectUri = "https://other.example/cb" -> "https://other.example"
    [] OTHER -> "null//null"

AppOrigins == {AppOrigin(u) : u \in RedirectUris}

ConsentRequests ==
  [subject : BOOLEAN, clientId : ClientIds \cup {Absent},
   redirectUri : RedirectUris, scope : Scopes, consent : BOOLEAN,
   localClientId : {"pod-client", Absent}, skipConsent : BOOLEAN,
   query : Queries, store : {"own", "replaced"}]

NoConsentRequest ==
  [subject |-> FALSE, clientId |-> Absent, redirectUri |-> "https://other.example/cb",
   scope |-> "openid", consent |-> FALSE, localClientId |-> Absent,
   skipConsent |-> FALSE, query |-> "", store |-> "own"]

\* the fields of opAuthRequest the flow may write
AuthReqFor(req) ==
  [subject |-> req.subject, consent |-> FALSE, scope |-> Absent,
   headersSent |-> FALSE]

Render(view) == [op |-> "render", status |-> 200, target |-> view]

LcInit ==
  /\ consentedOrigins = [defined |-> FALSE, origins |-> {}]
  /\ lcRev = Absent
  /\ lcPc = "idle"
  /\ lcReq = NoConsentRequest
  /\ lcAuthReq = AuthReqFor(NoConsentRequest)
  /\ lcCalls = <<>>
  /\ lcResp = <<>>
  /\ lcOutcome = "pending"
  /\ lcCount = 0
  /\ lcCaller = Absent

\* The host application records an origin the user agreed to share with in
\* session.consentedOrigins (nothing in LoginConsentRequest writes it)
HostSavesConsentedOrigin ==
  /\ lcPc = "idle"
  /\ \E o \in AppOrigins :
       /\ o \notin consentedOrigins.origins
       /\ consentedOrigins' = [defined |-> TRUE,
                               origins |-> consentedOrigins.origins \cup {o}]
  /\ UNCHANGED <<lcRev, lcPc, lcReq, lcAuthReq, lcCalls, lcResp, lcOutcome, lcCount>>
  /\ UNCHANGED <<dvars, cbvars, havars, lcCaller, spvars, usvars>>

\* the identity provider calls LoginConsentRequest.handle(opAuthRequest, skipConsent)
CallLoginConsentHandle ==
  /\ lcPc = "idle"
  /\ lcCount < MaxRequests
  /\ lcCount' = lcCount + 1
  /\ \E rev \in ConsentRevisions, req \in ConsentRequests :
       /\ req.store = "own"
       /\ lcRev' = rev
       /\ lcReq' = req
       /\ lcAuthReq' = AuthReqFor(req)
  /\ lcCaller' = "handle"
  /\ lcPc' = "handle"
  /\ lcCalls' = <<>>
  /\ lcResp' = <<>>
  /\ lcOutcome' = "pending"
  /\ UNCHANGED consentedOrigins
  /\ UNCHANGED <<dvars, cbvars, havars, spvars, usvars>>

\* The two revisions of HostAPI.obtainConsent
HostRevA == "host-api.js:35"
HostRevB == "part_000:37"
HostRevisions == {HostRevA, HostRevB}

HostSkipMutFalse == FALSE

\* let skipConsent = true
HostSkipConsent == TRUE

\* HostAPI.obtainConsent(authRequest) up to the call of
\* LoginConsentRequest.handle(authRequest, skipConsent); the handle it calls is
\* one that takes skipConsent
HostObtainConsent ==
  /\ lcPc = "idle"
  /\ lcCount < MaxRequests
  /\ lcCount' = lcCount + 1
  /\ \E host \in HostRevisions, rev \in {LcRevA, LcRevB, LcRevC}, req \in ConsentRequests :
       /\ req.skipConsent = HostSkipConsent
       /\ req.store = "own"
       /\ lcCaller' = host
       /\ lcRev' = rev
       /\ lcReq' = req
       /\ lcAuthReq' = AuthReqFor(req)
  /\ lcPc' = "handle"
  /\ lcCalls' = <<>>
  /\ lcResp' = <<>>
  /\ lcOutcome' = "pending"
  /\ UNCHANGED consentedOrigins
  /\ UNCHANGED <<dvars, cbvars, havars, spvars, usvars>>

\* LoginConsentRequest.obtainConsent(consentRequest) called with a request
\* object of the caller's own, as the unit tests do: the request is one that
\* handle would pass on, and its checkSavedConsentFor may have been replaced
\* by a store that holds the user's earlier consent
CallObtainConsent ==
  /\ lcPc = "idle"
  /\ lcCount < MaxRequests
  /\ lcCount' = lcCount + 1
  /\ \E rev \in {LcRevA, LcRevB, LcRevC}, req \in ConsentRequests :
       /\ req.subject
       /\ ~req.skipConsent
       /\ lcRev' = rev
       /\ lcReq' = req
       /\ lcAuthReq' = AuthReqFor(req)
  /\ lcCaller' = "obtainConsent"
  /\ lcPc' = "obtainConsent"
  /\ lcCalls' = <<>>
  /\ lcResp' = <<>>
  /\ lcOutcome' = "pending"
  /\ UNCHANGED consentedOrigins
  /\ UNCHANGED <<dvars, cbvars, havars, spvars, usvars>>

MarkMutNoScope(authReq, req) == [authReq EXCEPT !.consent = TRUE]

\* markConsentSuccess(opAuthRequest)
markConsentSuccess(authReq, req) ==
  [authReq EXCEPT !.consent = TRUE, !.scope = req.scope]

NotLoggedInMutNever(req) == FALSE

\* notLoggedIn = !opAuthRequest.subject
NotLoggedIn(req) == ~req.subject

\* LoginConsentRequest.handle, revisions A, B and C
LoginConsentHandle ==
  /\ lcPc = "handle"
  /\ lcRev \in {LcRevA, LcRevB, LcRevC}
  /\ IF NotLoggedIn(lcReq)
     THEN /\ lcPc' = "done"
          /\ lcOutcome' = "resolved"
          /\ UNCHANGED <<lcAuthReq, lcCalls>>
     ELSE IF lcReq.skipConsent
     THEN /\ lcAuthReq' = markConsentSuccess(lcAuthReq, lcReq)
          /\ lcCalls' = Append(lcCalls, "markConsentSuccess")
          /\ lcPc' = "done"
          /\ lcOutcome' = "resolved"
     ELSE /\ lcPc' = "obtainConsent"
          /\ UNCHANGED <<lcAuthReq, lcCalls, lcOutcome>>
  /\ UNCHANGED <<consentedOrigins, lcRev, lcReq, lcResp, lcCount>>
  /\ UNCHANGED <<dvars, cbvars, havars, lcCaller, spvars, usvars>>

\* LoginConsentRequest.handle, revision D, which takes no skipConsent
LoginConsentHandleD ==
  /\ lcPc = "handle"
  /\ lcRev = LcRevD
  /\ IF NotLoggedIn(lcReq)
     THEN /\ lcPc' = "done"
          /\ lcOutcome' = "resolved"
     ELSE /\ lcPc' = "obtainConsent"
          /\ lcOutcome' = lcOutcome
  /\ UNCHANGED <<consentedOrigins, lcRev, lcReq, lcAuthReq, lcCalls, lcResp, lcCount>>
  /\ UNCHANGED <<dvars, cbvars, havars, lcCaller, spvars, usvars>>

\* isLocalRpClient of revisions A and C: the origin of the redirect uri is the
\* server's own uri
isLocalRpClientByOrigin(req) == ServerUri = AppOrigin(req.redirectUri)

IsLocalMutNever(req) == FALSE

\* isLocalRpClient of revision B: the client id is host.localClientId
isLocalRpClient(req) ==
  req.clientId /= Absent /\ req.clientId = req.localClientId

ConsentedMutNever(req, consented) == FALSE

\* hasAlreadyConsented(appOrigin) of revision A
hasAlreadyConsented(req, consented) ==
  consented.defined /\ AppOrigin(req.redirectUri) \in consented.origins

\* checkSavedConsentFor(clientId)
checkSavedConsentFor(clientId) == FALSE

PriorMutNeverFound(req) == FALSE

\* what the promise of consentRequest.checkSavedConsentFor(clientId) resolves
\* with: the class's own method resolves with false, a replaced one with the
\* saved consent it holds
PriorConsentFound(req) ==
  IF req.store = "own" THEN checkSavedConsentFor(req.clientId) ELSE TRUE

\* saveConsentForClient(clientId): Promise.resolve(clientId), which leaves
\* the session's consented origins as they are
saveConsentForClient(consented, clientId) == consented

\* The three ways obtainConsent goes on in revisions A, B and C: consent is
\* implied, consent was given (saveConsentForClient is called), or the saved
\* consent is looked up (checkSavedConsentFor is called)
ObtainConsentBranch(isLocal, consented) ==
  IF isLocal
  THEN /\ lcPc' = "markConsentSuccess"
       /\ UNCHANGED <<consentedOrigins, lcAuthReq, lcCalls, lcResp, lcOutcome>>
  ELSE IF consented
  THEN /\ lcCalls' = Append(lcCalls, "saveConsentForClient")
       /\ consentedOrigins' = saveConsentForClient(consentedOrigins, lcReq.clientId)
       /\ lcPc' = "markConsentSuccess"
       /\ UNCHANGED <<lcAuthReq, lcResp, lcOutcome>>
  ELSE /\ lcCalls' = Append(lcCalls, "checkSavedConsentFor")
       /\ lcPc' = "priorConsent"
       /\ UNCHANGED <<consentedOrigins, lcAuthReq, lcResp, lcOutcome>>

\* LoginConsentRequest.obtainConsent of revision A, up to the first promise
ObtainConsentA ==
  /\ lcPc = "obtainConsent"
  /\ lcRev = LcRevA
  /\ ObtainConsentBranch(isLocalRpClientByOrigin(lcReq),
                         hasAlreadyConsented(lcReq, consentedOrigins))
  /\ UNCHANGED <<lcRev, lcReq, lcCount>>
  /\ UNCHANGED <<dvars, cbvars, havars, lcCaller, spvars, usvars>>

\* LoginConsentRequest.obtainConsent of revision B, up to the first promise
ObtainConsentB ==
  /\ lcPc = "obtainConsent"
  /\ lcRev = LcRevB
  /\ ObtainConsentBranch(isLocalRpClient(lcReq), lcReq.consent)
  /\ UNCHANGED <<lcRev, lcReq, lcCount>>
  /\ UNCHANGED <<dvars, cbvars, havars, lcCaller, spvars, usvars>>

\* LoginConsentRequest.obtainConsent of revision C, up to the first promise
ObtainConsentC ==
  /\ lcPc = "obtainConsent"
  /\ lcRev = LcRevC
  /\ ObtainConsentBranch(isLocalRpClientByOrigin(lcReq), lcReq.consent)
  /\ UNCHANGED <<lcRev, lcReq, lcCount>>
  /\ UNCHANGED <<dvars, cbvars, havars, lcCaller, spvars, usvars>>

\* LoginConsentRequest.obtainConsent of revision D, which is synchronous
ObtainConsentD ==
  /\ lcPc = "obtainConsent"
  /\ lcRev = LcRevD
  /\ lcPc' = "done"
  /\ lcOutcome' = "resolved"
  /\ IF lcReq.consent
     THEN /\ lcAuthReq' = [lcAuthReq EXCEPT !.consent = TRUE, !.scope = lcReq.scope]
          /\ UNCHANGED <<lcCalls, lcResp>>
     ELSE /\ lcAuthReq' = [lcAuthReq EXCEPT !.headersSent = TRUE]
          /\ lcCalls' = Append(lcCalls, "renderConsentPage")
          /\ lcResp' = Append(lcResp, Render("auth/consent"))
  /\ UNCHANGED <<consentedOrigins, lcRev, lcReq, lcCount>>
  /\ UNCHANGED <<dvars, cbvars, havars, lcCaller, spvars, usvars>>

\* the .then that marks the consent after the implied or given consent
LoginConsentMarkSuccess ==
  /\ lcPc = "markConsentSuccess"
  /\ lcAuthReq' = markConsentSuccess(lcAuthReq, lcReq)
  /\ lcCalls' = Append(lcCalls, "markConsentSuccess")
  /\ lcPc' = "done"
  /\ lcOutcome' = "resolved"
  /\ UNCHANGED <<consentedOrigins, lcRev, lcReq, lcResp, lcCount>>
  /\ UNCHANGED <<dvars, cbvars, havars, lcCaller, spvars, usvars>>

\* the path of the consent page: '/sharing' in revision A, '/consent' in C
ConsentPage(rev) == IF rev = LcRevA THEN "/sharing" ELSE "/consent"

RedirectMutDropQuery(rev, query) == Redirect(302, ConsentPage(rev))

\* redirectToConsent: opAuthRequest.res.redirect(consentUrl), the consent page
\* with the query of the authorization request
RedirectToConsent(rev, query) == Redirect(302, UrlFormat(ConsentPage(rev), query))

SignalMutSwallowed == "resolved"

\* signalResponseSent(): throw new AuthResponseSent, which rejects the
\* promise obtainConsent returned
signalResponseSent == "rejected"

\* revisions A and C, the .then that receives priorConsent: without prior
\* consent redirectToConsent clears the subject, redirects and throws
\* AuthResponseSent
PriorConsentOrRedirect ==
  /\ lcPc = "priorConsent"
  /\ lcRev \in {LcRevA, LcRevC}
  /\ lcPc' = "done"
  /\ IF PriorConsentFound(lcReq)
     THEN /\ lcAuthReq' = markConsentSuccess(lcAuthReq, lcReq)
          /\ lcCalls' = Append(lcCalls, "markConsentSuccess")
          /\ lcOutcome' = "resolved"
          /\ lcResp' = lcResp
     ELSE /\ lcAuthReq' = [lcAuthReq EXCEPT !.subject = FALSE]
          /\ lcCalls' = Append(lcCalls, "redirectToConsent")
          /\ lcResp' = Append(lcResp, RedirectToConsent(lcRev, lcReq.query))
          /\ lcOutcome' = signalResponseSent
  /\ UNCHANGED <<consentedOrigins, lcRev, lcReq, lcCount>>
  /\ UNCHANGED <<dvars, cbvars, havars, lcCaller, spvars, usvars>>

\* revision B, the .then that receives priorConsent: without prior consent
\* renderConsentPage renders the page and sets headersSent
PriorConsentOrRender ==
  /\ lcPc = "priorConsent"
  /\ lcRev = LcRevB
  /\ lcPc' = "done"
  /\ lcOutcome' = "resolved"
  /\ IF PriorConsentFound(lcReq)
     THEN /\ lcAuthReq' = markConsentSuccess(lcAuthReq, lcReq)
          /\ lcCalls' = Append(lcCalls, "markConsentSuccess")
          /\ lcResp' = lcResp
     ELSE /\ lcAuthReq' = [lcAuthReq EXCEPT !.headersSent = TRUE]
          /\ lcCalls' = Append(lcCalls, "renderConsentPage")
          /\ lcResp' = Append(lcResp, Render("auth/consent"))
  /\ UNCHANGED <<consentedOrigins, lcRev, lcReq, lcCount>>
  /\ UNCHANGED <<dvars, cbvars, havars, lcCaller, spvars, usvars>>

\* .catch(error => { debug(...) }) of HostAPI.obtainConsent: a resolution of
\* handle passes, a rejection becomes a resolution with undefined
HostCatch(outcome) == IF outcome = "rejected" THEN "resolvedUndefined" ELSE outcome

\* the promise HostAPI.obtainConsent returned settles
HostObtainConsentSettled ==
  /\ lcPc = "done"
  /\ lcCaller \in HostRevisions
  /\ lcPc' = "returned"
  /\ lcOutcome' = HostCatch(lcOutcome)
  /\ UNCHANGED <<consentedOrigins, lcRev, lcReq, lcAuthReq, lcCalls, lcResp, lcCount>>
  /\ UNCHANGED <<dvars, cbvars, havars, lcCaller, spvars, usvars>>

\* the identity provider has the verdict; the next authorization request may come
LoginConsentFinished ==
  /\ \/ lcPc = "done" /\ lcCaller \in {"handle", "obtainConsent"}
     \/ lcPc = "returned"
  /\ lcPc' = "idle"
  /\ lcCaller' = Absent
  /\ lcRev' = Absent
  /\ lcReq' = NoConsentRequest
  /\ lcAuthReq' = AuthReqFor(NoConsentRequest)
  /\ lcCalls' = <<>>
  /\ lcResp' = <<>>
  /\ lcOutcome' = "pending"
  /\ UNCHANGED <<consentedOrigins, lcCount>>
  /\ UNCHANGED <<dvars, cbvars, havars, spvars, usvars>>

LcNext ==
  \/ HostSavesConsentedOrigin
  \/ CallLoginConsentHandle
  \/ CallObtainConsent
  \/ HostObtainConsent
  \/ LoginConsentHandle
  \/ LoginConsentHandleD
  \/ ObtainConsentA
  \/ ObtainConsentB
  \/ ObtainConsentC
  \/ ObtainConsentD
  \/ LoginConsentMarkSuccess
  \/ PriorConsentOrRedirect
  \/ PriorConsentOrRender
  \/ HostObtainConsentSettled
  \/ LoginConsentFinished

\* ------------------------------------------------------------------------
\* The host API: authenticate and logout
\* ------------------------------------------------------------------------
HaInit ==
  /\ haRev = Absent
  /\ haPc = "idle"
  /\ haOp = Absent
  /\ haQuery = ""
  /\ haSubject = Absent
  /\ haResp = <<>>
  /\ haOutcome = "pending"
  /\ haSession0 = FreshSession
  /\ haCount = 0

\* session.identified && session.userId
SessionIdentified(s) == s.identified /\ Present(s.userId)

\* how authenticate ends after it redirected to /login: the revision of
\* host-api.js returns authRequest, the revision of part_000 throws
\* AuthSuccessException
AfterLoginRedirect(rev) == IF rev = HostRevB THEN "threw" ELSE "returned"

\* HostAPI.authenticate(authRequest): the subject, the response and the way
\* the call ends
authenticate(rev, s, query) ==
  IF SessionIdentified(s)
  THEN [subject |-> s.userId, resp |-> <<>>, outcome |-> "returned"]
  ELSE [subject |-> Absent,
        resp |-> <<Redirect(302, UrlFormat("/login", query))>>,
        outcome |-> AfterLoginRedirect(rev)]

\* the identity provider calls HostAPI.authenticate while handling /authorize
HostAuthenticate ==
  /\ haPc = "idle"
  /\ cbPc = "idle"
  /\ haCount < MaxHostCalls
  /\ haCount' = haCount + 1
  /\ haOp' = "authenticate"
  /\ haSession0' = session
  /\ \E rev \in HostRevisions, query \in Queries :
       LET r == authenticate(rev, session, query)
       IN /\ haRev' = rev
          /\ haQuery' = query
          /\ haSubject' = r.subject
          /\ haResp' = r.resp
          /\ haOutcome' = r.outcome
  /\ haPc' = "done"
  /\ UNCHANGED <<dvars, cbvars, lcvars, spvars, usvars>>

\* the identity provider calls HostAPI.logout, which calls
\* LogoutRequest.handle(req, res)
HostLogout ==
  /\ haPc = "idle"
  /\ cbPc = "idle"
  /\ haCount < MaxHostCalls
  /\ haCount' = haCount + 1
  /\ haOp' = "logout"
  /\ haSession0' = session
  /\ \E rev \in HostRevisions : haRev' = rev
  /\ haQuery' = ""
  /\ haSubject' = Absent
  /\ haResp' = <<>>
  /\ haOutcome' = "pending"
  /\ haPc' = "logoutRequest"
  /\ UNCHANGED <<dvars, cbvars, lcvars, spvars, usvars>>

\* LogoutRequest.handle settles: the logout collaborator ends the session and
\* resolves, or fails and rejects
LogoutRequestHandle ==
  /\ haPc = "logoutRequest"
  /\ \E ok \in BOOLEAN :
       IF ok
       THEN /\ session' = FreshSession
            /\ haOutcome' = "resolved"
       ELSE /\ session' = session
            /\ haOutcome' = "rejected"
  /\ haPc' = "settle"
  /\ UNCHANGED <<cbRev, cbPc, cbIssuer, cbReturnTo, cbAuth, cbSteps, cbResp,
                 cbOutcome, cbErr, cbSession0, cbCount, cbParams>>
  /\ UNCHANGED <<haRev, haOp, haQuery, haSubject, haResp, haSession0, haCount>>
  /\ UNCHANGED <<dvars, lcvars, spvars, usvars>>

\* what follows LogoutRequest.handle in logout: .then(() => logoutRequest),
\* and in the revision of part_000 a .catch that reports the error
LogoutSettle(rev, outcome) ==
  IF rev = HostRevB /\ outcome = "rejected"
  THEN "resolvedUndefined"
  ELSE outcome

\* the promise HostAPI.logout returned settles
HostLogoutSettled ==
  /\ haPc = "settle"
  /\ haOutcome' = LogoutSettle(haRev, haOutcome)
  /\ haPc' = "done"
  /\ UNCHANGED <<haRev, haOp, haQuery, haSubject, haResp, haSession0, haCount>>
  /\ UNCHANGED <<dvars, cbvars, lcvars, spvars, usvars>>

\* the identity provider goes on; the next call may come
HostFinished ==
  /\ haPc = "done"
  /\ haPc' = "idle"
  /\ haRev' = Absent
  /\ haOp' = Absent
  /\ haQuery' = ""
  /\ haSubject' = Absent
  /\ haResp' = <<>>
  /\ haOutcome' = "pending"
  /\ haSession0' = FreshSession
  /\ UNCHANGED haCount
  /\ UNCHANGED <<dvars, cbvars, lcvars, spvars, usvars>>

\* the session is written by the callback and read by the host API; the
\* requests of one session are served one after the other
HaNext ==
  \/ SaveReturnToUrl
  \/ CallbackGet
  \/ CallbackValidate
  \/ CallbackLoadClient
  \/ CallbackValidateResponse
  \/ CallbackInitSessionUserAuth
  \/ CallbackWebIdFromClaims
  \/ CallbackResumeUserWorkflow
  \/ CallbackRedirect
  \/ CallbackFinished
  \/ HostAuthenticate
  \/ HostLogout
  \/ LogoutRequestHandle
  \/ HostLogoutSettled
  \/ HostFinished

\* ------------------------------------------------------------------------
\* The provider selection form: SelectProviderRequest
\* ------------------------------------------------------------------------
\* A string without scheme that becomes a URI once https:// is put in front
SchemelessUri(h, p) == [k |-> "noscheme", host |-> h, path |-> p]
\* A string without scheme holding a character no URI may hold ("not a uri")
IllegalStr == [k |-> "illegalNoScheme", host |-> "", path |-> ""]
\* 'https://' in front of such a string
IllegalUri == [k |-> "illegal", host |-> "", path |-> ""]
\* A string that starts with 'http' and has no scheme ("httpbin.example")
HttpWord == [k |-> "httpword", host |-> "", path |-> ""]

\* what the webid field of the form can carry
WebIdInputs ==
  {Undefined, EmptyStr, IllegalStr, HttpWord, SchemelessUri("localhost:8443", "")}
    \cup {SchemelessUri("alice.example", p) : p \in UriPaths}
    \cup {HttpUri("alice.example", p) : p \in UriPaths}

\* the characters of a value of the webid field (null and undefined have none)
UriText(uri) ==
  CASE uri.k = "url" -> "https://" \o uri.host \o uri.path
    [] uri.k = "noscheme" -> uri.host \o uri.path
    [] uri.k = "illegalNoScheme" -> "not a uri"
    [] uri.k = "illegal" -> "https://not a uri"
    [] uri.k = "httpword" -> "httpbin.example/alice#me"
    [] OTHER -> ""

\* String.prototype.startsWith
startsWith(text, prefix) ==
  Len(text) >= Len(prefix) /\ SubSeq(text, 1, Len(prefix)) = prefix

\* 'https://' + uri
HttpsPrefixed(uri) ==
  CASE uri.k = "noscheme" -> HttpUri(uri.host, uri.path)
    [] uri.k = "illegalNoScheme" -> IllegalUri
    [] OTHER -> IllegalUri

\* SelectProviderRequest.normalizeUri(uri)
normalizeUri(uri) ==
  IF ~Truthy(uri)
  THEN uri
  ELSE IF ~startsWith(UriText(uri), "http")
  THEN HttpsPrefixed(uri)
  ELSE uri

SpError(type, status) == [type |-> type, statusCode |-> status]
NoSpErr == SpError("none", NoStatus)

ValidateMutManagerFirst(webId, manager) ==
  IF manager = "none"
  THEN SpError("NotInitialized", 500)
  ELSE IF ~Truthy(webId) \/ ~IsUri(webId)
  THEN SpError("NoWebId", 400)
  ELSE NoSpErr

\* SelectProviderRequest.validate(): the error it throws, or NoSpErr
validate(webId, manager) ==
  IF ~Truthy(webId)
  THEN SpError("NoWebId", 400)
  ELSE IF ~IsUri(webId)
  THEN SpError("InvalidWebId", 400)
  ELSE IF manager = "none"
  THEN SpError("NotInitialized", 500)
  ELSE NoSpErr

\* SelectProviderRequest.validateProviderUri(provider)
SpValidateProviderUri(provider) ==
  IF ~Truthy(provider)
  THEN SpError("NotAdvertised", 400)
  ELSE IF ~IsUri(provider)
  THEN SpError("InvalidProviderUri", 400)
  ELSE NoSpErr

Status(code) == [op |-> "status", status |-> code, target |-> ""]
RenderError(message) ==
  [op |-> "render", status |-> 0, target |-> "auth/select-provider", error |-> message]

ErrorStatusMutAlways400(err) == 400

\* error.statusCode || 400
ErrorStatus(err) == IF err.statusCode /= NoStatus THEN err.statusCode ELSE 400

\* .catch(err => request.error(err)): res.status(...), then res.render(...)
SpCatch(err) ==
  /\ spErr' = err
  /\ spResp' = spResp \o <<Status(ErrorStatus(err)), RenderError(err.type)>>
  /\ spPc' = "done"

SessionIds == {"sessionA", "sessionB"}
AuthUrls == {"https://op.example/authorize?client_id=1", "https://op2.example/authorize?client_id=2"}

SpInit ==
  /\ spPc = "idle"
  /\ spInput = Undefined
  /\ spWebId = Undefined
  /\ spManager = "none"
  /\ spSession = Absent
  /\ spProvider = Undefined
  /\ spAuthUrl = Absent
  /\ spCalls = <<>>
  /\ spResp = <<>>
  /\ spErr = NoSpErr

\* SelectProviderRequest.post: fromParams, then handlePost starts
SelectProviderPost ==
  /\ spPc = "idle"
  /\ \E webid \in WebIdInputs, manager \in {"none", "noClients", "ready"},
        sess \in SessionIds :
       /\ spInput' = webid
       /\ spWebId' = normalizeUri(webid)
       /\ spManager' = manager
       /\ spSession' = sess
  /\ spPc' = "validate"
  /\ UNCHANGED <<spProvider, spAuthUrl, spCalls, spResp, spErr>>
  /\ UNCHANGED <<dvars, cbvars, lcvars, havars, usvars>>

\* .then(() => request.validate())
SelectProviderValidate ==
  /\ spPc = "validate"
  /\ LET err == validate(spWebId, spManager)
     IN IF err = NoSpErr
        THEN /\ spPc' = "requestOptions"
             /\ UNCHANGED <<spResp, spErr>>
        ELSE SpCatch(err)
  /\ UNCHANGED <<spInput, spWebId, spManager, spSession, spProvider, spAuthUrl, spCalls>>
  /\ UNCHANGED <<dvars, cbvars, lcvars, havars, usvars>>

\* fetchProviderUri: requestOptions(uri) settles and parseProviderLink reads
\* the oidc.provider relation of the response, whatever its status
SelectProviderRequestOptions ==
  /\ spPc = "requestOptions"
  /\ \E answered \in BOOLEAN, link \in LinkValues \cup {Undefined} :
       /\ spCalls' = Append(spCalls, [call |-> "OPTIONS", uri |-> spWebId, session |-> Absent])
       /\ IF answered
          THEN /\ spProvider' = link
               /\ spPc' = "validateProviderUri"
               /\ UNCHANGED <<spResp, spErr>>
          ELSE /\ link = Undefined
               /\ spProvider' = spProvider
               /\ SpCatch(SpError("ProviderNotFound", 400))
  /\ UNCHANGED <<spInput, spWebId, spManager, spSession, spAuthUrl>>
  /\ UNCHANGED <<dvars, cbvars, lcvars, havars, usvars>>

\* fetchProviderUri: the .then that validates and returns the provider uri
SelectProviderValidateProviderUri ==
  /\ spPc = "validateProviderUri"
  /\ LET err == SpValidateProviderUri(spProvider)
     IN IF err = NoSpErr
        THEN /\ spPc' = "authUrlFor"
             /\ UNCHANGED <<spResp, spErr>>
        ELSE SpCatch(err)
  /\ UNCHANGED <<spInput, spWebId, spManager, spSession, spProvider, spAuthUrl, spCalls>>
  /\ UNCHANGED <<dvars, cbvars, lcvars, havars, usvars>>

AuthUrlCallMutWebId(webId, providerUri, sess) ==
  [call |-> "authUrlForIssuer", uri |-> webId, session |-> sess]

\* multiRpClient.authUrlForIssuer(providerUri, this.session)
AuthUrlCall(webId, providerUri, sess) ==
  [call |-> "authUrlForIssuer", uri |-> providerUri, session |-> sess]

\* authUrlFor(providerUrl): without oidcManager.clients the call throws a
\* TypeError; else the client store resolves with the url or rejects with an
\* error of its own
SelectProviderAuthUrlFor ==
  /\ spPc = "authUrlFor"
  /\ IF spManager = "noClients"
     THEN /\ SpCatch(SpError("TypeError", NoStatus))
          /\ UNCHANGED <<spAuthUrl, spCalls>>
     ELSE /\ spCalls' = Append(spCalls, AuthUrlCall(spWebId, spProvider, spSession))
          /\ \E url \in AuthUrls \cup {Absent}, status \in {NoStatus, 500} :
               IF url /= Absent
               THEN /\ status = NoStatus
                    /\ spAuthUrl' = url
                    /\ spPc' = "redirect"
                    /\ UNCHANGED <<spResp, spErr>>
               ELSE /\ spAuthUrl' = spAuthUrl
                    /\ SpCatch(SpError("AuthUrlFailed", status))
  /\ UNCHANGED <<spInput, spWebId, spManager, spSession, spProvider>>
  /\ UNCHANGED <<dvars, cbvars, lcvars, havars, usvars>>

\* a chain that renders the form after it has redirected
RedirectMutThenRender ==
  /\ spPc = "redirect"
  /\ spResp' = spResp \o <<Redirect(302, spAuthUrl), RenderError("Express")>>
  /\ spPc' = "done"
  /\ UNCHANGED <<spInput, spWebId, spManager, spSession, spProvider, spAuthUrl, spCalls, spErr>>
  /\ UNCHANGED <<dvars, cbvars, lcvars, havars, usvars>>

\* .then(providerAuthUrl => this.response.redirect(providerAuthUrl))
SelectProviderRedirect ==
  /\ spPc = "redirect"
  /\ spResp' = Append(spResp, Redirect(302, spAuthUrl))
  /\ spPc' = "done"
  /\ UNCHANGED <<spInput, spWebId, spManager, spSession, spProvider, spAuthUrl, spCalls, spErr>>
  /\ UNCHANGED <<dvars, cbvars, lcvars, havars, usvars>>

SpNext ==
  \/ SelectProviderPost
  \/ SelectProviderValidate
  \/ SelectProviderRequestOptions
  \/ SelectProviderValidateProviderUri
  \/ SelectProviderAuthUrlFor
  \/ SelectProviderRedirect

\* ------------------------------------------------------------------------
\* The user store: UserStore
\* ------------------------------------------------------------------------
\* The sources hold two revisions of the class
UsRevA == "user-store.js:8"
UsRevB == "part_003:8"
UserStoreRevisions == {UsRevA, UsRevB}

UserIds == {"example.com/profile#me", "alice.solidtest.space/profile/card#me"}
Emails == {"alice@example.com"}
Passwords == {"12345"}

\* encodeURIComponent(v) on the ids and emails of the model
encodeURIComponent(v) ==
  CASE v = "example.com/profile#me" -> "example.com%2Fprofile%23me"
    [] v = "alice.solidtest.space/profile/card#me"
         -> "alice.solidtest.space%2Fprofile%2Fcard%23me"
    [] v = "alice@example.com" -> "alice%40example.com"
    [] OTHER -> v

\* UserStore.normalizeIdKey(id)
normalizeIdKey(id) == IF ~Present(id) THEN Absent ELSE encodeURIComponent(id)

\* UserStore.normalizeEmailKey(email)
normalizeEmailKey(email) == IF ~Present(email) THEN Absent ELSE encodeURIComponent(email)

UserKeys == {normalizeIdKey(id) : id \in UserIds}
EmailKeys == {normalizeEmailKey(e) : e \in Emails}

\* What a key of a collection can hold, and what a user argument can be
UsRecord(k, id, email, localAccountId, hashedPassword, link) ==
  [k |-> k, id |-> id, email |-> email, localAccountId |-> localAccountId,
   hashedPassword |-> hashedPassword, link |-> link]
\* no value under the key
NoRecord == UsRecord("none", Absent, Absent, Absent, Absent, Absent)
\* the user argument null
NullUser == UsRecord("null", Absent, Absent, Absent, Absent, Absent)
\* a user account
UserAccount(id, email, localAccountId) ==
  UsRecord("user", id, email, localAccountId, Absent, Absent)
\* let aliasRecord = { link: toId }
AliasRecord(toId) == UsRecord("alias", Absent, Absent, Absent, Absent, toId)
\* let userByEmail = { id: user.id }
UserByEmail(id) == UsRecord("byEmail", id, Absent, Absent, Absent, Absent)

UserArguments ==
  {NullUser}
    \cup {UserAccount(id, email, local) :
            id \in UserIds \cup {Absent}, email \in Emails \cup {Absent},
            local \in UserIds \cup {Absent}}

UsError(type, status, message) == [type |-> type, status |-> status, message |-> message]
NoUsErr == UsError("none", NoStatus, "")

BackendCall(op, coll, key) == [op |-> op, coll |-> coll, key |-> key]

UsInit ==
  /\ usRev = Absent
  /\ usPc = "idle"
  /\ usOp = Absent
  /\ usUser = NullUser
  /\ usPassword = Absent
  /\ usLookup = Absent
  /\ usResult = NoRecord
  /\ users = [key \in UserKeys |-> NoRecord]
  /\ usersByEmail = [key \in EmailKeys |-> NoRecord]
  /\ usStore0 = <<[key \in UserKeys |-> NoRecord], [key \in EmailKeys |-> NoRecord]>>
  /\ usCalls = <<>>
  /\ usOutcome = "pending"
  /\ usErr = NoUsErr
  /\ usCount = 0

\* UserStore.from(options): the store is an instance of one of the revisions
UserStoreFrom ==
  /\ usRev = Absent
  /\ \E rev \in UserStoreRevisions : usRev' = rev
  /\ UNCHANGED <<usPc, usOp, usUser, usPassword, usLookup, usResult, users,
                 usersByEmail, usStore0, usCalls, usOutcome, usErr, usCount>>
  /\ UNCHANGED <<dvars, cbvars, lcvars, havars, spvars>>

\* an operation begins
UsBegin(user, password, lookup, pc) ==
  /\ usPc = "idle"
  /\ usRev /= Absent
  /\ usCount < MaxUserOps
  /\ usCount' = usCount + 1
  /\ usUser' = user
  /\ usPassword' = password
  /\ usLookup' = lookup
  /\ usResult' = NoRecord
  /\ usStore0' = <<users, usersByEmail>>
  /\ usCalls' = <<>>
  /\ usOutcome' = "pending"
  /\ usErr' = NoUsErr
  /\ usPc' = pc
  /\ UNCHANGED <<usRev, users, usersByEmail>>
  /\ UNCHANGED <<dvars, cbvars, lcvars, havars, spvars>>

\* the promise of the operation rejects with error e
UsReject(e) ==
  /\ usPc' = "done"
  /\ usOutcome' = "rejected"
  /\ usErr' = e

\* store.createUser(user, password) is called
CreateUser ==
  /\ usOp' = "createUser"
  /\ \E user \in UserArguments, password \in Passwords \cup {Absent, ""} :
       UsBegin(user, password, Absent, "validate")

\* store.updatePassword(user, password) is called: the chain of createUser
\* up to saveUser
UpdatePassword ==
  /\ usRev = UsRevB
  /\ usOp' = "updatePassword"
  /\ \E user \in UserArguments, password \in Passwords \cup {Absent} :
       UsBegin(user, password, Absent, "validate")

ValidateUserMutAccepts(user) == NoUsErr

\* validateUser(user) (in user-store.js the first check of createUser)
validateUser(user) ==
  IF user.k = "null" \/ ~Present(user.id)
  THEN UsError("TypeError", 400, "No user id provided to user store")
  ELSE NoUsErr

\* validatePassword(password) (in user-store.js the second check of createUser)
validatePassword(password) ==
  IF ~Present(password)
  THEN UsError("TypeError", 400, "No password provided")
  ELSE NoUsErr

\* createUser: the two checks, the user's first
CreateUserValidate ==
  /\ usPc = "validate"
  /\ LET userErr == validateUser(usUser)
         passwordErr == validatePassword(usPassword)
     IN IF userErr /= NoUsErr
        THEN UsReject(userErr)
        ELSE IF passwordErr /= NoUsErr
        THEN UsReject(passwordErr)
        ELSE /\ usPc' = "hashPassword"
             /\ UNCHANGED <<usOutcome, usErr>>
  /\ UNCHANGED <<usRev, usOp, usUser, usPassword, usLookup, usResult, users,
                 usersByEmail, usStore0, usCalls, usCount>>
  /\ UNCHANGED <<dvars, cbvars, lcvars, havars, spvars>>

\* hashPassword(password): bcrypt.hash calls back with the hash or an error;
\* the next .then sets user.hashedPassword
CreateUserHashPassword ==
  /\ usPc = "hashPassword"
  /\ usCalls' = Append(usCalls, BackendCall("hash", "bcrypt", usPassword))
  /\ \E ok \in BOOLEAN :
       IF ok
       THEN /\ usUser' = [usUser EXCEPT !.hashedPassword = "hash of " \o usPassword]
            /\ usPc' = IF usRev = UsRevB /\ Present(usUser.localAccountId)
                       THEN "saveAliasUserRecord"
                       ELSE "saveUser"
            /\ UNCHANGED <<usOutcome, usErr>>
       ELSE /\ usUser' = usUser
            /\ UsReject(UsError("BcryptError", NoStatus, ""))
  /\ UNCHANGED <<usRev, usOp, usPassword, usLookup, usResult, users,
                 usersByEmail, usStore0, usCount>>
  /\ UNCHANGED <<dvars, cbvars, lcvars, havars, spvars>>

AliasMutSelfLink(fromId, toId) == AliasRecord(fromId)

\* saveAliasUserRecord(fromId, toId): the record put under the key of fromId
saveAliasUserRecord(fromId, toId) == AliasRecord(toId)

\* saveUser of part_003, first .then: the alias record of user.localAccountId
CreateUserSaveAlias ==
  /\ usPc = "saveAliasUserRecord"
  /\ LET aliasKey == normalizeIdKey(usUser.localAccountId)
     IN /\ usCalls' = Append(usCalls, BackendCall("put", "users", aliasKey))
        /\ \E ok \in BOOLEAN :
             IF ok
             THEN /\ users' = [users EXCEPT ![aliasKey] =
                                 saveAliasUserRecord(usUser.localAccountId, usUser.id)]
                  /\ usPc' = "saveUser"
                  /\ UNCHANGED <<usOutcome, usErr>>
             ELSE /\ users' = users
                  /\ UsReject(UsError("BackendError", NoStatus, ""))
  /\ UNCHANGED <<usRev, usOp, usUser, usPassword, usLookup, usResult,
                 usersByEmail, usStore0, usCount>>
  /\ UNCHANGED <<dvars, cbvars, lcvars, havars, spvars>>

\* saveUser: backend.put('users', userKey, user)
CreateUserSaveUser ==
  /\ usPc = "saveUser"
  /\ LET userKey == normalizeIdKey(usUser.id)
     IN /\ usCalls' = Append(usCalls, BackendCall("put", "users", userKey))
        /\ \E ok \in BOOLEAN :
             IF ok
             THEN /\ users' = [users EXCEPT ![userKey] = usUser]
                  /\ usPc' = IF usOp = "updatePassword" THEN "done" ELSE "saveUserByEmail"
                  /\ usOutcome' = IF usOp = "updatePassword" THEN "resolved" ELSE usOutcome
                  /\ usErr' = usErr
             ELSE /\ users' = users
                  /\ UsReject(UsError("BackendError", NoStatus, ""))
  /\ UNCHANGED <<usRev, usOp, usUser, usPassword, usLookup, usResult,
                 usersByEmail, usStore0, usCount>>
  /\ UNCHANGED <<dvars, cbvars, lcvars, havars, spvars>>

\* saveUserByEmail(user): the index entry, if the user has an email
CreateUserSaveUserByEmail ==
  /\ usPc = "saveUserByEmail"
  /\ IF Present(usUser.email)
     THEN LET key == normalizeEmailKey(usUser.email)
          IN /\ usCalls' = Append(usCalls, BackendCall("put", "users-by-email", key))
             /\ \E ok \in BOOLEAN :
                  IF ok
                  THEN /\ usersByEmail' = [usersByEmail EXCEPT ![key] = UserByEmail(usUser.id)]
                       /\ usPc' = "done"
                       /\ usOutcome' = "resolved"
                       /\ usErr' = usErr
                  ELSE /\ usersByEmail' = usersByEmail
                       /\ UsReject(UsError("BackendError", NoStatus, ""))
     ELSE /\ usPc' = "done"
          /\ usOutcome' = "resolved"
          /\ UNCHANGED <<usersByEmail, usCalls, usErr>>
  /\ UNCHANGED <<usRev, usOp, usUser, usPassword, usLookup, usResult, users,
                 usStore0, usCount>>
  /\ UNCHANGED <<dvars, cbvars, lcvars, havars, spvars>>

\* store.findUser(userId) is called
FindUser ==
  /\ usOp' = "findUser"
  /\ \E userId \in UserIds :
       UsBegin(NullUser, Absent, userId, "get")

FollowMutNever(rev, record) == FALSE

\* findUser of part_003: user && user.link, the record is an alias record
\* (findUser of user-store.js returns what the backend holds)
FollowsLink(rev, record) == rev = UsRevB /\ Present(record.link)

\* findUser(userId) as a function of the collection: the record findUser
\* resolves with after at most the given number of lookups
RECURSIVE findUser(_, _, _, _)
findUser(rev, collection, userId, lookups) ==
  LET record == collection[normalizeIdKey(userId)]
  IN IF FollowsLink(rev, record) /\ lookups > 1
     THEN findUser(rev, collection, record.link, lookups - 1)
     ELSE record

\* findUser: backend.get('users', userKey) resolves; an alias record is
\* followed with another findUser
FindUserGet ==
  /\ usPc = "get"
  /\ Len(usCalls) < MaxLookups
  /\ LET userKey == normalizeIdKey(usLookup)
         record == users[userKey]
     IN /\ usCalls' = Append(usCalls, BackendCall("get", "users", userKey))
        /\ IF FollowsLink(usRev, record)
           THEN /\ usLookup' = record.link
                /\ UNCHANGED <<usPc, usResult, usOutcome>>
           ELSE /\ usResult' = record
                /\ usPc' = "done"
                /\ usOutcome' = "resolved"
                /\ usLookup' = usLookup
  /\ UNCHANGED <<usRev, usOp, usUser, usPassword, users, usersByEmail,
                 usStore0, usErr, usCount>>
  /\ UNCHANGED <<dvars, cbvars, lcvars, havars, spvars>>

\* store.deleteUser(user) is called (part_003 only); the key is computed
\* before the promise chain starts
DeleteUser ==
  /\ usRev = UsRevB
  /\ \E user \in UserArguments :
       /\ user.k = "user"
       /\ Present(user.id)
       /\ UsBegin(user, Absent, Absent, "remove")
  /\ usOp' = "deleteUser"

\* deleteUser: backend.remove('users', userKey, user)
DeleteUserRemove ==
  /\ usPc = "remove"
  /\ LET userKey == normalizeIdKey(usUser.id)
     IN /\ usCalls' = Append(usCalls, BackendCall("remove", "users", userKey))
        /\ \E ok \in BOOLEAN :
             IF ok
             THEN /\ users' = [users EXCEPT ![userKey] = NoRecord]
                  /\ usPc' = "done"
                  /\ usOutcome' = "resolved"
                  /\ usErr' = usErr
             ELSE /\ users' = users
                  /\ UsReject(UsError("BackendError", NoStatus, ""))
  /\ UNCHANGED <<usRev, usOp, usUser, usPassword, usLookup, usResult,
                 usersByEmail, usStore0, usCount>>
  /\ UNCHANGED <<dvars, cbvars, lcvars, havars, spvars>>

\* the caller has the outcome; the next operation may begin
UsFinished ==
  /\ usPc = "done"
  /\ usPc' = "idle"
  /\ UNCHANGED <<usRev, usOp, usUser, usPassword, usLookup, usResult, users,
                 usersByEmail, usStore0, usCalls, usOutcome, usErr, usCount>>
  /\ UNCHANGED <<dvars, cbvars, lcvars, havars, spvars>>

UsNext ==
  \/ UserStoreFrom
  \/ CreateUser
  \/ UpdatePassword
  \/ CreateUserValidate
  \/ CreateUserHashPassword
  \/ CreateUserSaveAlias
  \/ CreateUserSaveUser
  \/ CreateUserSaveUserByEmail
  \/ FindUser
  \/ FindUserGet
  \/ DeleteUser
  \/ DeleteUserRemove
  \/ UsFinished

Init == DInit /\ CbInit /\ LcInit /\ HaInit /\ SpInit /\ UsInit

\* provider resolution on its own
SpecDiscovery == Init /\ [][DNext]_vars

\* callback requests on one session
SpecCallback == Init /\ [][CbNext]_vars

\* consent decisions on one session
SpecConsent == Init /\ [][LcNext]_vars
SpecHost == Init /\ [][HaNext]_vars
SpecSelect == Init /\ [][SpNext]_vars

\* operations on one user store, one after another
SpecUsers == Init /\ [][UsNext]_vars

\* One request of any of the handlers on a server that has served none: the
\* callback and the calls of the host on one session, or one authorization
\* request in the consent decision, or one provider selection
SessionRequests ==
  /\ LcInit
  /\ SpInit
  /\ HaNext

ConsentRequest ==
  /\ CbInit
  /\ HaInit
  /\ SpInit
  /\ LcNext

SelectionRequest ==
  /\ CbInit
  /\ HaInit
  /\ LcInit
  /\ SpNext

RequestsNext ==
  \/ SessionRequests
  \/ ConsentRequest
  \/ SelectionRequest

SpecRequests == Init /\ [][RequestsNext]_vars

\* ------------------------------------------------------------------------
\* Properties of provider discovery
\* ------------------------------------------------------------------------
Requests == {dCalls[i].req : i \in 1..Len(dCalls)}
CallsOf(req) == {i \in 1..Len(dCalls) : dCalls[i].req = req}
Answered(req, answer) == \E i \in CallsOf(req) : dCalls[i].answer = answer
\* the issuer the OPTIONS response advertised with its Link relation
HeaderIssuer ==
  IF \E i \in CallsOf("OPTIONS") : dCalls[i].answer = "ok"
  THEN dCalls[CHOOSE i \in CallsOf("OPTIONS") : TRUE].link
  ELSE Undefined
\* the profile was fetched successfully and carried this list
ProfileRead == Answered("PROFILE", "ok")
ProfileList == dCalls[CHOOSE i \in CallsOf("PROFILE") : TRUE].list

\* C3: when the HEAD probe of <origin>/.well-known/openid-configuration
\* answers successfully, preferredProviderFor(u) returns origin(u) and issues
\* neither the OPTIONS probe nor the profile fetch.
C3_SelfCheckShortCircuits ==
  (dEntry = "preferred" /\ Answered("HEAD", "ok"))
    => /\ Requests = {"HEAD"}
       /\ dpc = "done"
       /\ dResult = Ok(Origin(dUri))

C3_Witness ==
  /\ dEntry = "preferred"
  /\ Answered("HEAD", "ok")
  /\ dpc = "done"
  /\ dUri.path /= ""
  /\ dResult.ok
  /\ dResult.value.path = ""

\* C4: when the OPTIONS response is successful and its Link header names an
\* http(s) issuer I, discovery (entered directly or after a failed self-check)
\* returns origin(I), path and query stripped, and never fetches the profile.
C4_HeaderIssuerWins ==
  (HeaderIssuer \in IssuerUris)
    => /\ "PROFILE" \notin Requests
       /\ dpc = "done" => dResult = Ok(Origin(HeaderIssuer))
       /\ dpc = "done" => dResult.value.path = ""

C4_Witness ==
  /\ dpc = "done"
  /\ dEntry = "preferred"
  /\ Answered("HEAD", "notok")
  /\ HeaderIssuer \in IssuerUris
  /\ HeaderIssuer.path /= ""
  /\ dResult = Ok(HttpUri(HeaderIssuer.host, ""))

\* the profile is consulted only when the header probe yielded no issuer
ProfileOnlyAfterEmptyHeaders ==
  ("PROFILE" \in Requests)
    => /\ "OPTIONS" \in Requests
       /\ ~Answered("OPTIONS", "reject")
       /\ ~Truthy(HeaderIssuer)

\* the profile was read and asserts exactly one oidcIssuer statement, with an
\* http(s) object
SingleIssuerProfile ==
  /\ dpc = "done"
  /\ ProfileRead
  /\ Len(ProfileList) = 1
  /\ ProfileList[1] \in IssuerUris

\* C5 as stated: the profile fallback is consulted only when the header probe
\* yields no issuer, and a profile with exactly one oidcIssuer statement with
\* object P makes discoverProviderFor return origin(P).
C5_Original ==
  /\ ProfileOnlyAfterEmptyHeaders
  /\ SingleIssuerProfile => dResult = Ok(Origin(ProfileList[1]))

\* C5 amended: the profile fallback is consulted only when the header probe
\* yields no issuer; a profile with exactly one oidcIssuer statement with
\* object P makes discoverProviderFor return origin(P) when no expected issuer
\* was supplied or the expected issuer equals origin(P), and fail with 'OIDC
\* issuer not advertised' when the expected issuer differs from origin(P).
C5_SingleProfileIssuer ==
  /\ ProfileOnlyAfterEmptyHeaders
  /\ SingleIssuerProfile =>
       IF dIssuer = Undefined \/ dIssuer = Origin(ProfileList[1])
       THEN dResult = Ok(Origin(ProfileList[1]))
       ELSE ~dResult.ok /\ dResult.err.type = "NotAdvertised"

C5_Witness ==
  /\ SingleIssuerProfile
  /\ ProfileList[1].path /= ""
  /\ dIssuer = Undefined
  /\ Answered("OPTIONS", "ok")
  /\ dResult = Ok(HttpUri(ProfileList[1].host, ""))

\* discovery reached the profile's list and an expected issuer was supplied
ListWithExpectedIssuer ==
  /\ dpc = "done"
  /\ ProfileRead
  /\ dIssuer /= Undefined

UnreachableAtBothSteps ==
  /\ dpc = "done"
  /\ "OPTIONS" \in Requests
  /\ ~Answered("OPTIONS", "ok")
  /\ ~Answered("PROFILE", "ok")

\* C7: if the OPTIONS probe fails or is non-successful and the profile fetch
\* fails or is non-successful, resolution fails with a status-400 discovery
\* error whose message contains the identity URI.
C7_UnreachableIsStatus400 ==
  UnreachableAtBothSteps =>
    /\ ~dResult.ok
    /\ dResult.err.statusCode = 400
    /\ dResult.err.webId = dUri

\* C8: a reachable identity advertising no issuer fails with 'OIDC issuer not
\* advertised'; that error is only produced after the profile was read, and
\* the 'could not reach' error only when the profile fetch failed or was
\* non-successful, so no discovery outcome produces both.
C8_NotAdvertisedVersusUnreachable ==
  dpc = "done" =>
    /\ ( /\ ~Truthy(HeaderIssuer)
         /\ ProfileRead
         /\ ProfileList = <<>> )
         => ~dResult.ok /\ dResult.err.type = "NotAdvertised"
                        /\ dResult.err.statusCode = 400
    /\ (~dResult.ok /\ dResult.err.type = "NotAdvertised") => ProfileRead
    /\ (~dResult.ok /\ dResult.err.type = "Unreachable") =>
         (Answered("PROFILE", "notok") \/ Answered("PROFILE", "reject"))

C8_Witness ==
  /\ dpc = "done"
  /\ Answered("OPTIONS", "ok")
  /\ HeaderIssuer = Undefined
  /\ ProfileRead
  /\ ProfileList = <<>>
  /\ dResult.err.type = "NotAdvertised"

\* ------------------------------------------------------------------------
\* Properties of the authentication callback
\* ------------------------------------------------------------------------
\* the chain of the request ran to its end without an error
SuccessfulCallback ==
  /\ cbPc = "done"
  /\ cbOutcome = "resolved"
  /\ cbErr = NoErr
  /\ cbSteps[Len(cbSteps)] = "resumeUserWorkflow"

\* C1: after AuthCallbackRequest.get (the revision with handle /
\* extractReturnToUrl) handled a successful callback whose claims yield W,
\* the session has userId = W and identified = true, session.returnToUrl is
\* absent, and the response is a 302 redirect to the returnToUrl that the
\* session held when the request arrived.
C1_SuccessfulCallbackEstablishesSession ==
  (cbRev = RevC /\ SuccessfulCallback /\ Present(cbSession0.returnToUrl))
    => /\ session.userId = webIdFromClaims(cbAuth.claims)
       /\ session.userId \in WebIds
       /\ session.identified = TRUE
       /\ session.returnToUrl = Absent
       /\ cbResp = <<Redirect(302, decodeURIComponent(cbSession0.returnToUrl))>>

\* C2: whatever fails while a callback is handled, AuthCallbackRequest.get
\* answers with a redirect to /login and does not propagate the error.
C2_EveryFailureRedirectsToLogin ==
  (cbPc = "done" /\ cbErr /= NoErr)
    => /\ cbOutcome = "resolved"
       /\ cbResp = <<Redirect(302, "/login")>>

\* ------------------------------------------------------------------------
\* Properties of the consent decision
\* ------------------------------------------------------------------------
ConsentCalled(method) == \E i \in 1..Len(lcCalls) : lcCalls[i] = method

\* an authenticated request whose client id is the configured local client id,
\* served by the revision that compares client ids, past handle()
LocalClientRequest ==
  /\ lcRev = LcRevB
  /\ lcReq.subject
  /\ lcReq.clientId /= Absent
  /\ lcReq.clientId = lcReq.localClientId
  /\ lcPc \notin {"idle", "handle"}

\* C9: for an authenticated request whose client id equals the configured
\* local client id the flow ends with consent = true and scope = the requested
\* scope, and on the way neither checkSavedConsentFor nor saveConsentForClient
\* is called and nothing is done to the response.
C9_LocalClientImplicitConsent ==
  LocalClientRequest
    => /\ ~ConsentCalled("checkSavedConsentFor")
       /\ ~ConsentCalled("saveConsentForClient")
       /\ lcResp = <<>>
       /\ lcPc = "done" => /\ lcOutcome = "resolved"
                           /\ lcAuthReq.consent = TRUE
                           /\ lcAuthReq.scope = lcReq.scope

C9_Witness ==
  /\ LocalClientRequest
  /\ ~lcReq.skipConsent
  /\ lcReq.consent
  /\ lcPc = "done"
  /\ lcAuthReq.consent = TRUE
  /\ lcAuthReq.scope = "openid profile"

\* an authenticated request of a non-local client whose redirect uri's origin
\* is in session.consentedOrigins, served by the revision that keeps
\* consented origins, past handle()
ConsentedOriginRequest ==
  /\ lcRev = LcRevA
  /\ lcReq.subject
  /\ AppOrigin(lcReq.redirectUri) /= ServerUri
  /\ consentedOrigins.defined
  /\ AppOrigin(lcReq.redirectUri) \in consentedOrigins.origins
  /\ lcPc \notin {"idle", "handle"}

\* C10: for an authenticated request of a non-local client whose redirect-URI
\* origin is already in session.consentedOrigins the flow ends with
\* consent = true and never redirects to or renders the consent page.
C10_ConsentedOriginGranted ==
  ConsentedOriginRequest
    => /\ lcResp = <<>>
       /\ ~ConsentCalled("redirectToConsent")
       /\ ~ConsentCalled("renderConsentPage")
       /\ ~ConsentCalled("checkSavedConsentFor")
       /\ lcPc = "done" => /\ lcOutcome = "resolved"
                           /\ lcAuthReq.consent = TRUE

C10_Witness ==
  /\ ConsentedOriginRequest
  /\ ~lcReq.skipConsent
  /\ ~lcReq.consent
  /\ lcPc = "done"
  /\ ConsentCalled("saveConsentForClient")
  /\ lcAuthReq.consent = TRUE
  /\ consentedOrigins.origins /= {AppOrigin(lcReq.redirectUri)}

\* an authenticated request that reached obtainConsent in a revision that
\* redirects to the consent page: the redirect uri's origin is not the
\* server's, is not in session.consentedOrigins, and no consent flag came
\* with the request (checkSavedConsentFor finds nothing)
NoPriorConsentRequest ==
  /\ lcRev \in {LcRevA, LcRevC}
  /\ lcReq.subject
  /\ ~lcReq.skipConsent
  /\ AppOrigin(lcReq.redirectUri) /= ServerUri
  /\ ~(consentedOrigins.defined /\ AppOrigin(lcReq.redirectUri) \in consentedOrigins.origins)
  /\ ~lcReq.consent
  /\ ~PriorConsentFound(lcReq)
  /\ lcPc = "done"

C12_ConsentAndScopeSetTogether ==
  /\ lcAuthReq.consent <=> lcAuthReq.scope /= Absent
  /\ lcAuthReq.consent => lcAuthReq.scope = lcReq.scope
  /\ lcPc = "done" =>
       IF ~lcReq.subject \/ lcResp /= <<>>
       THEN ~lcAuthReq.consent /\ lcAuthReq.scope = Absent
       ELSE lcAuthReq.consent /\ lcAuthReq.scope = lcReq.scope

C12_Witness ==
  /\ lcRev = LcRevB
  /\ lcPc = "done"
  /\ lcReq.subject
  /\ ~lcReq.skipConsent
  /\ lcReq.consent
  /\ lcReq.clientId /= lcReq.localClientId
  /\ lcAuthReq.consent
  /\ lcAuthReq.scope = "openid profile"

\* an authorization request without subject, handed to handle()
UnauthenticatedRequest ==
  /\ lcPc /= "idle"
  /\ ~lcReq.subject

\* C13: when the authorization request has no subject, handle resolves with
\* the request unchanged for either value of skipConsent: obtainConsent is not
\* entered, neither consent nor scope is set, no store is consulted and no
\* response is emitted.
C13_UnauthenticatedPassThrough ==
  UnauthenticatedRequest
    => /\ lcPc \in {"handle", "done", "returned"}
       /\ lcAuthReq = AuthReqFor(lcReq)
       /\ lcCalls = <<>>
       /\ lcResp = <<>>
       /\ lcPc \in {"done", "returned"} => lcOutcome = "resolved"

C13_Witness ==
  /\ UnauthenticatedRequest
  /\ lcPc = "done"
  /\ lcReq.skipConsent
  /\ lcReq.consent
  /\ lcRev = LcRevB
  /\ lcOutcome = "resolved"
  /\ lcAuthReq.consent = FALSE

\* an authenticated request past handle() with the skip-consent flag set, in a
\* revision whose handle takes the flag
SkipConsentRequest ==
  /\ lcRev \in {LcRevA, LcRevB, LcRevC}
  /\ lcReq.subject
  /\ lcReq.skipConsent
  /\ lcPc \notin {"idle", "handle"}

\* an authenticated request past handle() that came through
\* HostAPI.obtainConsent
HostConsentRequest ==
  /\ lcCaller \in HostRevisions
  /\ lcReq.subject
  /\ lcPc \notin {"idle", "handle"}

\* C14: with the skip-consent flag set (as HostAPI.obtainConsent always sets
\* it) every authenticated request, of any client, is granted: consent = true
\* and scope = the requested scope, only markConsentSuccess is invoked
\* (obtainConsent is not), and no response is emitted.
C14_SkipConsentAlwaysGrants ==
  (SkipConsentRequest \/ HostConsentRequest)
    => /\ lcPc \in {"done", "returned"}
       /\ lcCalls = <<"markConsentSuccess">>
       /\ lcAuthReq.consent = TRUE
       /\ lcAuthReq.scope = lcReq.scope
       /\ lcResp = <<>>
       /\ lcOutcome = "resolved"

C14_Witness ==
  /\ HostConsentRequest
  /\ lcCaller = HostRevA
  /\ lcRev = LcRevB
  /\ lcPc = "returned"
  /\ lcReq.clientId = "app-client"
  /\ lcReq.localClientId = "pod-client"
  /\ ~lcReq.consent
  /\ lcAuthReq.consent = TRUE
  /\ lcAuthReq.scope = "openid profile"

\* the consent flow has redirected the browser
ConsentRedirectSent == \E i \in 1..Len(lcResp) : lcResp[i].op = "redirect"

C15_AuthenticateSubjectOrLoginRedirect ==
  (haOp = "authenticate" /\ haPc = "done")
    => IF haSession0.identified /\ haSession0.userId \in WebIds
       THEN /\ haSubject = haSession0.userId
            /\ haResp = <<>>
            /\ haOutcome = "returned"
       ELSE /\ haResp = <<Redirect(302, "/login" \o
                            (IF haQuery = "" THEN "" ELSE "?" \o haQuery))>>
            /\ haSubject = Absent
            /\ haOutcome = "threw"

\* C17: the promise HostAPI.logout returns never rejects, whether
\* LogoutRequest.handle resolved or rejected.
C17_LogoutNeverRejects ==
  (haOp = "logout" /\ haPc = "done") => haOutcome /= "rejected"

\* ------------------------------------------------------------------------
\* Properties of the provider selection form
\* ------------------------------------------------------------------------
SpInputErrors == {"NoWebId", "InvalidWebId"}
SpDiscoveryErrors == {"ProviderNotFound", "NotAdvertised", "InvalidProviderUri"}

\* C18: validate fails with status 400 when the identity is missing or, after
\* normalization, no well-formed URI, with status 500 when the identity is
\* well-formed and no oidcManager is configured, and passes exactly when the
\* identity is a well-formed URI and an oidcManager is present.
C18_ValidateStatus ==
  spPc \notin {"idle", "validate"}
    => IF spWebId.k /= "url"
       THEN /\ spErr.type \in SpInputErrors
            /\ spErr.statusCode = 400
            /\ spErr.type = "NoWebId" <=> spWebId \in {Undefined, EmptyStr}
            /\ spPc = "done"
       ELSE IF spManager = "none"
       THEN /\ spErr = SpError("NotInitialized", 500)
            /\ spPc = "done"
       ELSE /\ spErr.type \notin SpInputErrors \cup {"NotInitialized"}
            /\ spPc = "requestOptions" \/ Len(spCalls) >= 1

C18_Witness ==
  /\ spPc = "done"
  /\ spWebId = HttpUri("alice.example", "/p?q")
  /\ spManager = "none"
  /\ spErr.statusCode = 500
  /\ spCalls = <<>>

\* C19: when handlePost fails, at validation, at discovery or at the
\* construction of the authorization url, the form auth/select-provider is
\* rendered once with the error's message after the status was set to the
\* error's status code (400 for input and discovery errors, 500 for the
\* configuration error, 400 for an error without status code), and no
\* redirect is issued.
C19_FailureRendersForm ==
  (spPc = "done" /\ spErr /= NoSpErr)
    => /\ Len(spResp) = 2
       /\ spResp[1].op = "status"
       /\ spResp[1].status =
            (CASE spErr.type \in SpInputErrors \cup SpDiscoveryErrors -> 400
               [] spErr.type = "NotInitialized" -> 500
               [] OTHER -> IF spErr.statusCode = NoStatus THEN 400 ELSE spErr.statusCode)
       /\ spResp[2].op = "render"
       /\ spResp[2].target = "auth/select-provider"
       /\ spResp[2].error = spErr.type
       /\ spAuthUrl = Absent

C19_Witness ==
  /\ spPc = "done"
  /\ spErr.type = "AuthUrlFailed"
  /\ spErr.statusCode = 500
  /\ spResp = <<Status(500), RenderError("AuthUrlFailed")>>
  /\ Len(spCalls) = 2

\* the request redirected the browser
SpRedirected == \E i \in 1..Len(spResp) : spResp[i].op = "redirect"

\* C20: a redirect is issued only after the provider was resolved and then
\* clients.authUrlForIssuer was asked with the resolved provider and the
\* request's session, in this order, and it goes to exactly the url that call
\* resolved with; a request that ends without error has redirected.
C20_ResolveThenAuthUrlThenRedirect ==
  /\ SpRedirected
       => /\ spErr = NoSpErr
          /\ Len(spCalls) = 2
          /\ spCalls[1].call = "OPTIONS"
          /\ spCalls[1].uri = spWebId
          /\ spCalls[2].call = "authUrlForIssuer"
          /\ spCalls[2].uri = spProvider
          /\ spCalls[2].session = spSession
          /\ spProvider.k \in {"url", "opaque"}
          /\ spAuthUrl \in AuthUrls
          /\ spResp = <<Redirect(302, spAuthUrl)>>
  /\ (spPc = "done" /\ spErr = NoSpErr) => SpRedirected

C20_Witness ==
  /\ spPc = "done"
  /\ SpRedirected
  /\ spSession = "sessionB"
  /\ spProvider = HttpUri("op2.example", "/p?q")
  /\ spResp = <<Redirect(302, "https://op.example/authorize?client_id=1")>>

\* ------------------------------------------------------------------------
\* Properties of the callback's inputs and of the order of its steps
\* ------------------------------------------------------------------------
CbStepTaken(step) == \E i \in 1..Len(cbSteps) : cbSteps[i] = step

\* a callback request (revision with handle / extractReturnToUrl) whose
\* route parameters hold no issuer_id, past
\* fromParams and in the promise chain (fromParams did not throw)
NoIssuerIdRequest ==
  /\ cbRev = RevC
  /\ cbPc /= "idle"
  /\ cbSteps /= <<>>
  /\ cbOutcome /= "threw"
  /\ cbParams \in {Absent, "noIssuerId"}

\* C21: a callback request without an issuer identifier fails with a
\* status-400 error at validate(): the client is not loaded, validateResponse
\* is not called and the session stays as it was.
C21_MissingIssuerFailsFast ==
  NoIssuerIdRequest
    => /\ ~CbStepTaken("loadClient")
       /\ ~CbStepTaken("validateResponse")
       /\ session = cbSession0
       /\ cbPc = "done" => cbErr = CbErr("IssuerMissing", 400)

\* a callback request of the revision with extractReturnToUrl, past
\* fromParams and in the promise chain
DecodingCallback ==
  /\ cbRev = RevC
  /\ cbPc /= "idle"
  /\ cbSteps /= <<>>
  /\ cbOutcome /= "threw"

\* C22: the returnToUrl the callback uses is the URI-decoded value the session
\* held when the request arrived, and '/' when the session held none; a
\* successful callback redirects there.
C22_ReturnToUrlDecodedOrRoot ==
  DecodingCallback
    => /\ Present(cbSession0.returnToUrl)
            => cbReturnTo = decodeURIComponent(cbSession0.returnToUrl)
       /\ cbSession0.returnToUrl = "%2Fr%23h" => cbReturnTo = "/r#h"
       /\ ~Present(cbSession0.returnToUrl) => cbReturnTo = "/"
       /\ SuccessfulCallback => cbResp = <<Redirect(302, cbReturnTo)>>

\* a successful callback that found an encoded returnToUrl in the session
C22_Witness ==
  /\ DecodingCallback
  /\ SuccessfulCallback
  /\ cbSession0.returnToUrl = "%2Fr%23h"
  /\ cbResp = <<Redirect(302, "/r#h")>>

\* ------------------------------------------------------------------------
\* Properties of the normalization of the submitted identity
\* ------------------------------------------------------------------------
\* the text starts with the http or the https scheme (the only schemes among
\* the inputs of the model)
CarriesScheme(text) == startsWith(text, "http://") \/ startsWith(text, "https://")

\* fromParams has normalized the submitted webid
Normalized == spPc /= "idle"

\* C23: normalizeUri puts 'https://' in front of a value without scheme
\* ('localhost:8443' becomes 'https://localhost:8443'), returns a value with
\* an http(s) scheme and null as they are, and is idempotent.
C23_NormalizeUri ==
  Normalized
    => LET given == UriText(spInput)
           result == UriText(spWebId)
       IN /\ (Truthy(spInput) /\ ~CarriesScheme(given))
               => result = "https://" \o given
          /\ spInput = SchemelessUri("localhost:8443", "")
               => result = "https://localhost:8443"
          /\ CarriesScheme(given) => spWebId = spInput
          /\ spInput = Undefined => spWebId = Undefined
          /\ normalizeUri(spWebId) = spWebId

\* C24: for a non-empty submitted identity the normalized value is
\* scheme-qualified: without a scheme it gets 'https://' in front, and it is
\* left as it was only if it carried a scheme.
C24_NormalizedIsSchemeQualified ==
  (Normalized /\ Truthy(spInput))
    => LET given == UriText(spInput)
           result == UriText(spWebId)
       IN /\ CarriesScheme(result)
          /\ ~CarriesScheme(given) => result = "https://" \o given
          /\ result = given => CarriesScheme(given)

\* ------------------------------------------------------------------------
\* Properties of saved consent
\* ------------------------------------------------------------------------
\* a request that was granted on the path that calls saveConsentForClient:
\* the consent flag was submitted, or the origin was among the consented ones
GrantedBySavingConsent ==
  /\ lcPc \in {"done", "returned"}
  /\ lcRev \in {LcRevA, LcRevB}
  /\ ConsentCalled("saveConsentForClient")
  /\ lcAuthReq.consent

\* C25: when consent is granted because the consent flag was submitted or the
\* origin was already consented, the origin of the client's redirect uri is
\* in session.consentedOrigins afterwards.
C25_GrantedConsentIsPersisted ==
  GrantedBySavingConsent
    => /\ consentedOrigins.defined
       /\ AppOrigin(lcReq.redirectUri) \in consentedOrigins.origins

\* an authenticated request of a client that is not the local one, without a
\* submitted consent flag, served by the revision that renders the consent
\* page, past obtainConsent
NoFlagRequest ==
  /\ lcRev = LcRevB
  /\ lcPc = "done"
  /\ lcReq.subject
  /\ ~lcReq.skipConsent
  /\ ~(lcReq.clientId /= Absent /\ lcReq.clientId = lcReq.localClientId)
  /\ ~lcReq.consent

\* C26: for such a request the saved consent is looked up, and when it is
\* found the request is granted (consent and scope set) and no consent page
\* is rendered or redirected to.
C26_SavedConsentGrants ==
  NoFlagRequest
    => /\ ConsentCalled("checkSavedConsentFor")
       /\ lcReq.store = "replaced"
            => /\ lcAuthReq.consent = TRUE
               /\ lcAuthReq.scope = lcReq.scope
               /\ lcAuthReq.headersSent = FALSE
               /\ lcResp = <<>>
               /\ lcOutcome = "resolved"

\* a request that was granted because saved consent was found
C26_Witness ==
  /\ NoFlagRequest
  /\ lcReq.store = "replaced"
  /\ lcCalls = <<"checkSavedConsentFor", "markConsentSuccess">>
  /\ lcAuthReq.consent = TRUE
  /\ lcResp = <<>>

\* ------------------------------------------------------------------------
\* Properties of the user store
\* ------------------------------------------------------------------------
UsCalled(coll) == \E i \in 1..Len(usCalls) : usCalls[i].coll = coll

MissingUserId == usUser.k = "null" \/ usUser.id = Absent
MissingPassword == usPassword = Absent \/ usPassword = ""

\* a createUser whose checks have run
CreateUserChecked ==
  /\ usOp = "createUser"
  /\ usPc \notin {"idle", "validate"}

\* C27: createUser rejects with a status-400 TypeError 'No user id provided
\* to user store' when user or user.id is missing and with 'No password
\* provided' when the password is missing; no password is hashed and nothing
\* is written to 'users' or 'users-by-email'.
C27_InvalidCreateUserRejects ==
  (CreateUserChecked /\ (MissingUserId \/ MissingPassword))
    => /\ usPc = "done"
       /\ usOutcome = "rejected"
       /\ usErr.type = "TypeError"
       /\ usErr.status = 400
       /\ MissingUserId => usErr.message = "No user id provided to user store"
       /\ ~MissingUserId => usErr.message = "No password provided"
       /\ usCalls = <<>>
       /\ <<users, usersByEmail>> = usStore0

\* a createUser with a user id and without password was rejected
C27_Witness ==
  /\ CreateUserChecked
  /\ ~MissingUserId
  /\ MissingPassword
  /\ usOutcome = "rejected"
  /\ usErr.message = "No password provided"

\* a createUser of the revision with alias records has completed for a user
\* whose localAccountId differs from its id
AliasedUserCreated ==
  /\ usRev = UsRevB
  /\ usOp = "createUser"
  /\ usPc = "done"
  /\ usOutcome = "resolved"
  /\ usUser.localAccountId /= Absent
  /\ usUser.localAccountId /= usUser.id

\* C28: after createUser completed for a user with id I and localAccountId L
\* (L /= I), 'users' holds the user record under the key of I and the alias
\* record {link: I} under the key of L, and findUser(L) returns the record
\* findUser(I) returns.
C28_AliasResolvesToUser ==
  AliasedUserCreated
    => /\ users[encodeURIComponent(usUser.id)] = usUser
       /\ usUser.hashedPassword /= Absent
       /\ users[encodeURIComponent(usUser.localAccountId)] = AliasRecord(usUser.id)
       /\ findUser(usRev, users, usUser.localAccountId, MaxLookups) = usUser
       /\ findUser(usRev, users, usUser.localAccountId, MaxLookups)
            = findUser(usRev, users, usUser.id, MaxLookups)

C28_Witness ==
  /\ AliasedUserCreated
  /\ usUser.id = "example.com/profile#me"
  /\ usUser.localAccountId = "alice.solidtest.space/profile/card#me"
  /\ users["alice.solidtest.space%2Fprofile%2Fcard%23me"].link = "example.com/profile#me"

\* a deleteUser has completed
UserDeleted ==
  /\ usOp = "deleteUser"
  /\ usPc = "done"
  /\ usOutcome = "resolved"

\* C29: deleteUser deletes the 'users' record under the normalized user id
\* and, when user.email is set, the 'users-by-email' entry under the
\* normalized email; without email 'users-by-email' is not touched.
C29_DeleteUserRemovesRecordAndIndex ==
  UserDeleted
    => /\ users[encodeURIComponent(usUser.id)] = NoRecord
       /\ usUser.email /= Absent
            => /\ UsCalled("users-by-email")
               /\ usersByEmail[encodeURIComponent(usUser.email)] = NoRecord
       /\ usUser.email = Absent => ~UsCalled("users-by-email")

\* ------------------------------------------------------------------------
\* Order of the steps of AuthCallbackRequest.handle
\* ------------------------------------------------------------------------
\* the revisions whose promise chain is the method handle
HandleRevisions == {RevB, RevC}

\* the methods of a request that runs to its end, in the order of handle; in
\* the later revision initSessionUserAuth ends with the promise of
\* webIdFromClaims
HandleOrder(rev) ==
  <<"fromParams", "validate", "loadClient", "validateResponse",
    "initSessionUserAuth">>
    \o (IF rev = RevC THEN <<"webIdFromClaims">> ELSE <<>>)
    \o <<"resumeUserWorkflow">>

\* the step at which a request with the error e stopped
FailedStep(rev, e) ==
  CASE e.type = "IssuerMissing" -> "validate"
    [] e.type = "ClientLoad" -> "loadClient"
    [] e.type = "InvalidResponse" -> "validateResponse"
    [] e.type = "NoWebId" ->
         IF rev = RevC THEN "webIdFromClaims" ELSE "initSessionUserAuth"
    [] OTHER -> "fromParams"

\* a callback request of a revision with handle, in or past its chain
HandledCallback ==
  /\ cbRev \in HandleRevisions
  /\ cbSteps /= <<>>

\* C30: handle runs validate, loadClient, validateResponse,
\* initSessionUserAuth and resumeUserWorkflow strictly in this order; the
\* failure of a step prevents every later step, so validateResponse never
\* runs before validate and loadClient succeeded and the redirect of
\* resumeUserWorkflow is never issued unless the session was initialised.
C30_HandleStepsInOrder ==
  HandledCallback
    => /\ Len(cbSteps) <= Len(HandleOrder(cbRev))
       /\ cbSteps = SubSeq(HandleOrder(cbRev), 1, Len(cbSteps))
       /\ cbErr /= NoErr
            => /\ cbSteps[Len(cbSteps)] = FailedStep(cbRev, cbErr)
               /\ cbPc \in {"done", "idle"}
               /\ \A i \in 1..Len(cbResp) : cbResp[i].target /= cbReturnTo
       /\ (CbStepTaken("resumeUserWorkflow") /\ cbPc = "done")
            => /\ cbErr = NoErr
               /\ cbResp = <<Redirect(302, cbReturnTo)>>
               /\ session.userId = webIdFromClaims(cbAuth.claims)
               /\ Present(session.userId)
               /\ session.accessToken = cbAuth.accessToken
               /\ session.refreshToken = cbAuth.refreshToken

\* a request that was stopped by validateResponse: the session was not
\* initialised and nothing was redirected to returnToUrl
C30_Witness ==
  /\ HandledCallback
  /\ cbPc = "done"
  /\ cbErr.type = "InvalidResponse"
  /\ cbSteps = <<"fromParams", "validate", "loadClient", "validateResponse">>
  /\ session = cbSession0

\* ------------------------------------------------------------------------
\* The session and the response of a callback
\* ------------------------------------------------------------------------
\* the request in progress has acted on its response object
CbResponded ==
  /\ cbPc /= "idle"
  /\ cbResp /= <<>>

\* resumeUserWorkflow has issued its redirect
ResumeRedirectIssued ==
  /\ cbPc = "done"
  /\ CbStepTaken("resumeUserWorkflow")
  /\ cbResp /= <<>>
  /\ cbResp[Len(cbResp)].op = "redirect"

\* a step of the request in progress that writes the session
CbSessionWritten ==
  /\ cbPc /= "idle"
  /\ session' /= session

\* C31: in the callback flow every session mutation (tokens, identity,
\* clearing of returnToUrl) is applied before the terminal 302 redirect is
\* issued, and nothing mutates the session after the redirect.
C31_SessionWrittenBeforeRedirect ==
  /\ [](ResumeRedirectIssued
          => /\ cbResp = <<Redirect(302, cbReturnTo)>>
             /\ session.returnToUrl = Absent
             /\ session.accessToken = cbAuth.accessToken
             /\ session.refreshToken = cbAuth.refreshToken
             /\ session.userId = webIdFromClaims(cbAuth.claims))
  /\ [][CbSessionWritten => cbResp = <<>> /\ cbResp' = <<>>]_vars
  /\ [][CbResponded => session' = session]_vars

\* a callback has redirected to the decoded returnToUrl of a session that now
\* holds the identity and no returnToUrl
C31_Witness ==
  /\ ResumeRedirectIssued
  /\ cbRev = RevC
  /\ cbSession0.returnToUrl = "%2Fr%23h"
  /\ cbResp = <<Redirect(302, "/r#h")>>
  /\ session.returnToUrl = Absent
  /\ Present(session.userId)

\* a callback of a revision with handle has ended with an error
FailedCallback ==
  /\ cbRev \in HandleRevisions
  /\ cbPc = "done"
  /\ cbErr /= NoErr

\* the fields of the session that hold the authentication
SessionAuth(s) ==
  [accessToken |-> s.accessToken, refreshToken |-> s.refreshToken,
   userId |-> s.userId, identified |-> s.identified]

\* C32: if a callback fails at any step, the session's accessToken,
\* refreshToken, userId and identified are what they were before the
\* request: a failed callback never stores tokens without an identity and
\* never alters an established session.
C32_FailedCallbackLeavesSession ==
  FailedCallback => SessionAuth(session) = SessionAuth(cbSession0)

\* ------------------------------------------------------------------------
\* Properties of the candidates of provider discovery
\* ------------------------------------------------------------------------
\* discoverProviderFor has ended with the list of the profile
ListSelected ==
  /\ dpc = "done"
  /\ dIsList

\* candidate i of the list, reduced to its origin, passes validateProviderUri
Validates(list, i, webId) ==
  /\ Origin(list[i]) /= TypeErrorThrown
  /\ validateProviderUri(Origin(list[i]), webId) = Undefined

\* candidate i validates and is the expected issuer, if one was given
Selectable(list, i, webId, issuer) ==
  /\ Validates(list, i, webId)
  /\ issuer = Undefined \/ Origin(list[i]) = issuer

\* C33: in the multi-candidate case discoverProviderFor returns the first
\* validated candidate (the expected issuer when one is supplied), even when
\* candidates that fail validation precede it; if no candidate validates it
\* fails with the last validation error, and with the error 'OIDC issuer not
\* advertised' when the list is empty.
C33_FirstValidatedCandidate ==
  ListSelected
    => LET n == Len(dFound)
           selectable == {i \in 1..n : Selectable(dFound, i, dUri, dIssuer)}
       IN /\ selectable /= {}
               => \E i \in selectable :
                    /\ \A j \in selectable : i <= j
                    /\ dResult = Ok(Origin(dFound[i]))
          /\ (n > 0 /\ \A i \in 1..n : ~Validates(dFound, i, dUri))
               => /\ ~dResult.ok
                  /\ dResult.err.type = "InvalidUri"
                  /\ dResult.err.statusCode = 400
                  /\ dResult.err.webId = dUri
          /\ n = 0 => dResult = Fail(DiscoveryErr("NotAdvertised", 400, dUri, Undefined))

\* discoverProviderFor has ended with the value of the issuer Link relation
LinkSelected ==
  /\ dpc = "done"
  /\ ~dIsList
  /\ Truthy(dFound)

\* a value that is not a well-formed http(s) URI
Malformed(v) == v.k /= "url"

\* C34: if the issuer advertised for an identity is empty or not a
\* well-formed URI, discovery fails with a status-400 error that names the
\* identity (and the offending value when malformed); no other kind of
\* error escapes discovery for a malformed issuer.
C34_MalformedIssuerIsStatus400 ==
  /\ (LinkSelected /\ Malformed(dFound))
       => /\ ~dResult.ok
          /\ dResult.err.type = "InvalidUri"
          /\ dResult.err.statusCode = 400
          /\ dResult.err.webId = dUri
          /\ dResult.err.value /= Undefined
  /\ (ListSelected /\ dFound = <<>>)
       => dResult = Fail(DiscoveryErr("NotAdvertised", 400, dUri, Undefined))

\* ------------------------------------------------------------------------
\* The selection flow against provider resolution
\* ------------------------------------------------------------------------
\* fetchProviderUri has settled for a response that advertises a provider
ProviderFetched ==
  /\ spCalls /= <<>>
  /\ spPc \notin {"idle", "validate", "requestOptions", "validateProviderUri"}
  /\ Truthy(spProvider)

\* fetchProviderUri rejected
FetchFailed == spErr.type \in {"NotAdvertised", "InvalidProviderUri", "ProviderNotFound"}

\* C35: the provider the selection flow uses is the one provider resolution
\* returns: for a response that advertises a provider, fetchProviderUri
\* yields the origin (or the failure) that discoverProviderFor yields for the
\* same advertised value.
C35_SelectionUsesResolvedProvider ==
  ProviderFetched
    => LET resolved == SelectProvider(spProvider, FALSE, spWebId, Undefined)
       IN IF resolved.ok
          THEN ~FetchFailed /\ spProvider = resolved.value
          ELSE FetchFailed

\* ------------------------------------------------------------------------
\* One response per request
\* ------------------------------------------------------------------------
\* the redirects, renders and sends among the actions on a response object
ResponseActions(resp) ==
  {i \in 1..Len(resp) : resp[i].op \in {"redirect", "render", "send"}}

\* C36: in every execution of SelectProviderRequest.handlePost,
\* AuthCallbackRequest.get, HostAPI.authenticate followed by
\* HostAPI.obtainConsent, and LoginConsentRequest.handle, at most one
\* response action (redirect, render or send) is issued on the request's
\* response object.  An authenticate that redirected leaves no subject, and
\* the obtainConsent that follows it on a request without subject issues
\* nothing.
C36_OneResponsePerRequest ==
  /\ Cardinality(ResponseActions(spResp)) <= 1
  /\ Cardinality(ResponseActions(cbResp)) <= 1
  /\ Cardinality(ResponseActions(lcResp)) <= 1
  /\ Cardinality(ResponseActions(haResp)) <= 1
  /\ (haOp = "authenticate" /\ haResp /= <<>>) => haSubject = Absent
  /\ (lcCaller \in HostRevisions /\ ~lcReq.subject) => lcResp = <<>>
  /\ (lcCaller \in HostRevisions /\ lcReq.subject)
       => Cardinality(ResponseActions(lcResp)) <= 1

\* a provider selection that failed has set the status and rendered the form
\* once
C36_Witness ==
  /\ spPc = "done"
  /\ spErr /= NoSpErr
  /\ Len(spResp) = 2
  /\ Cardinality(ResponseActions(spResp)) = 1

\* ------------------------------------------------------------------------
\* The callback and authenticate on one session
\* ------------------------------------------------------------------------
\* HostAPI.authenticate has run and the last callback before it, of a revision
\* with handle, was successful
AuthenticateAfterCallback ==
  /\ haOp = "authenticate"
  /\ haPc = "done"
  /\ cbRev \in HandleRevisions
  /\ cbPc = "idle"
  /\ cbOutcome = "resolved"
  /\ cbErr = NoErr
  /\ CbStepTaken("resumeUserWorkflow")

\* C37: after AuthCallbackRequest.get has completed a successful callback
\* yielding identity W, the next HostAPI.authenticate on that session sets
\* the subject to W and does not redirect to /login.
C37_CallbackSatisfiesAuthenticate ==
  AuthenticateAfterCallback
    => /\ haSubject = webIdFromClaims(cbAuth.claims)
       /\ Present(haSubject)
       /\ haResp = <<>>

\* ------------------------------------------------------------------------
\* Links of the user store
\* ------------------------------------------------------------------------
\* findUser(userId) comes to a record that is no alias within the lookups of
\* the model, which are more than the collection has keys
FindUserTerminates(userId) ==
  ~FollowsLink(UsRevB, findUser(UsRevB, users, userId, MaxLookups))

\* C38: for every content of the store reachable through createUser,
\* updatePassword and deleteUser calls, the alias links of 'users' form no
\* cycle, so findUser(id) terminates for every id.
C38_AliasLinksFormNoCycle ==
  usRev = UsRevB => \A userId \in UserIds : FindUserTerminates(userId)

\* a record exists in 'users' for the id
RecordExists(id) == users[encodeURIComponent(id)] /= NoRecord

\* C39: in every reachable state, the intermediate states of createUser
\* included, every alias record {link: I} and every 'users-by-email' entry
\* {id: I} refers to an id I for which a record exists in 'users'.
C39_NoDanglingReferences ==
  /\ \A key \in UserKeys : users[key].link /= Absent => RecordExists(users[key].link)
  /\ \A key \in EmailKeys :
       usersByEmail[key] /= NoRecord => RecordExists(usersByEmail[key].id)

====
